---- MODULE Spec2Model ----
(***************************************************************************)
(* kompose: translation of a compose service model into Kubernetes /       *)
(* OpenShift resource objects (Transform), and their creation (Deploy) and *)
(* removal (Undeploy) against a cluster.                                   *)
(*                                                                         *)
(* Strings that the code takes apart, builds or orders (names, image       *)
(* references, hosts, port names) are sequences of one-character strings,  *)
(* so that strconv.Itoa, strings.Replace, strings.Split, concatenation and *)
(* lexicographic order are computed and not assumed. Enumerations (kinds,  *)
(* restart policies, protocols, build modes) are plain strings.            *)
(***************************************************************************)
EXTENDS Integers, Sequences, FiniteSets, TLC

VARIABLES
    loaded,         \* the service model as the loader produces it from the input files
    komposeObject,  \* kobject.KomposeObject.ServiceConfigs of the running process
    opt,            \* kobject.ConvertOptions of the run
    env,            \* outcomes of the external collaborators (git, cwd, docker, os.Getenv)
    cluster,        \* live objects of the control plane
    pc,             \* position of the running command
    objects,        \* the graph returned by the last Transform
    ret,            \* how the last Transform ended: status, err, the services it
                    \* skipped, and the objects in the order they were emitted
    first,          \* status and graph of the first Transform of the process
    idx,            \* index in objects of the object Deploy/Undeploy is at
    items,          \* listed items of the current object Undeploy has still to visit
    errorList,      \* Undeploy's errorList / Deploy's returned error
    calls,          \* control-plane and build/push calls issued so far, in order
    faults,         \* number of external calls that have failed so far
    img,            \* an image reference handed to getImageTag
    tag,            \* what getImageTag returned for it
    unsupportedKey, \* the package's map of unsupported fields: field name -> already reported
    keyChecks       \* the calls of CheckUnsupportedKey so far: the model each was
                    \* given, where it was loaded from, and the keys it returned

vars == <<loaded, komposeObject, opt, env, cluster, pc, objects, ret, first,
          idx, items, errorList, calls, faults, img, tag, unsupportedKey, keyChecks>>

(***************************************************************************)
(* Bounds of the model.                                                    *)
(***************************************************************************)
MaxPorts == 2
MaxFaults == 1
MaxImageLen == 5
MaxChecks == 2

(***************************************************************************)
(* Character sequences.                                                    *)
(***************************************************************************)
Ord(c) ==
    CASE c = "-" -> 45 [] c = "0" -> 48 [] c = "1" -> 49 [] c = "2" -> 50
      [] c = "3" -> 51 [] c = "4" -> 52 [] c = "5" -> 53 [] c = "6" -> 54
      [] c = "7" -> 55 [] c = "8" -> 56 [] c = "9" -> 57 [] c = ":" -> 58
      [] c = "J" -> 74 [] c = "K" -> 75
      [] c = "a" -> 97 [] c = "b" -> 98 [] c = "c" -> 99 [] c = "d" -> 100
      [] c = "e" -> 101 [] c = "w" -> 119 [] OTHER -> 122

\* s < t in the byte order sort.Strings uses
RECURSIVE StrLess(_, _)
StrLess(s, t) ==
    IF t = <<>> THEN FALSE
    ELSE IF s = <<>> THEN TRUE
    ELSE IF Ord(Head(s)) # Ord(Head(t)) THEN Ord(Head(s)) < Ord(Head(t))
    ELSE StrLess(Tail(s), Tail(t))

Digit(d) ==
    CASE d = 0 -> "0" [] d = 1 -> "1" [] d = 2 -> "2" [] d = 3 -> "3"
      [] d = 4 -> "4" [] d = 5 -> "5" [] d = 6 -> "6" [] d = 7 -> "7"
      [] d = 8 -> "8" [] OTHER -> "9"

\* strconv.Itoa on a non-negative number
RECURSIVE Itoa(_)
Itoa(n) == IF n < 10 THEN <<Digit(n)>> ELSE Itoa(n \div 10) \o <<Digit(n % 10)>>

\* strings.Replace(s, old, new, 1)
RECURSIVE ReplaceFirst(_, _, _)
ReplaceFirst(s, old, new) ==
    IF Len(s) < Len(old) THEN s
    ELSE IF SubSeq(s, 1, Len(old)) = old
         THEN new \o SubSeq(s, Len(old) + 1, Len(s))
         ELSE <<Head(s)>> \o ReplaceFirst(Tail(s), old, new)

\* strings.Split(s, sep) for a one-character separator
RECURSIVE Split(_, _)
Split(s, sep) ==
    IF \A i \in 1..Len(s) : s[i] # sep THEN <<s>>
    ELSE LET i == CHOOSE j \in 1..Len(s) :
                      s[j] = sep /\ \A k \in 1..(j - 1) : s[k] # sep
         IN  <<SubSeq(s, 1, i - 1)>> \o Split(SubSeq(s, i + 1, Len(s)), sep)

(***************************************************************************)
(* String constants of the program and of the inputs.                      *)
(***************************************************************************)
Selector == "io.kompose.service"
TRUEstr == <<"t", "r", "u", "e">>
Latest == <<"l", "a", "t", "e", "s", "t">>
Sentinel == <<"\\x00">>
ClaimStr == <<"c", "l", "a", "i", "m">>
EmptyStr == <<"e", "m", "p", "t", "y">>

\* transformer.ConfigLabels
ConfigLabels(name) == {<<Selector, name>>}

(***************************************************************************)
(* Resource objects. Every object of a graph is a record of one shape; a   *)
(* field a kind does not have keeps the value given here. owner is         *)
(* bookkeeping: the service in whose loop iteration the object was built.  *)
(***************************************************************************)
Obj(kind, name) ==
    [kind |-> kind, name |-> name, labels |-> ConfigLabels(name), owner |-> name,
     replicas |-> 0, image |-> <<>>, ports |-> <<>>, selector |-> {},
     port |-> 0, host |-> <<>>, tags |-> {}, from |-> <<>>, output |-> <<>>,
     env |-> <<>>, source |-> <<>>, volumes |-> <<>>, accessMode |-> ""]

ExposureKinds == {"Service", "Ingress", "Route"}
ControllerKinds == {"Deployment", "DaemonSet", "ReplicationController", "DeploymentConfig"}

\* Kubernetes.InitRC
InitRC(name, service, replicas) ==
    [Obj("ReplicationController", name) EXCEPT !.replicas = replicas, !.image = service.Image]

\* Kubernetes.InitSvc
InitSvc(name, service) ==
    [Obj("Service", name) EXCEPT !.selector = ConfigLabels(name)]

\* Kubernetes.InitD
InitD(name, service, replicas) ==
    [Obj("Deployment", name) EXCEPT !.replicas = replicas, !.image = service.Image]

\* Kubernetes.InitDS
InitDS(name, service) ==
    [Obj("DaemonSet", name) EXCEPT !.image = service.Image]

\* Kubernetes.InitPod
InitPod(name, service) ==
    [Obj("Pod", name) EXCEPT !.image = service.Image]

\* Kubernetes.initIngress
initIngress(name, service, port) ==
    [Obj("Ingress", name) EXCEPT
        !.port = port,
        !.host = IF service.ExposeService # TRUEstr THEN service.ExposeService ELSE <<>>]

CreatePVCUnlabelled(name, mode) ==
    [Obj("PersistentVolumeClaim", name) EXCEPT
        !.labels = {},
        !.accessMode = IF mode = "ro" THEN "ReadOnlyMany" ELSE "ReadWriteOnce"]

\* Kubernetes.CreatePVC (resource.ParseQuantity("100Mi") does not fail)
CreatePVC(name, mode) ==
    [Obj("PersistentVolumeClaim", name) EXCEPT
        !.accessMode = IF mode = "ro" THEN "ReadOnlyMany" ELSE "ReadWriteOnce"]

ServicePortOfContainerName(port) ==
    LET hostPort == IF port.HostPort = 0 THEN port.ContainerPort ELSE port.HostPort
    IN  [Name |-> Itoa(port.ContainerPort),
         Protocol |-> IF port.Protocol = "TCP" THEN "" ELSE port.Protocol,
         Port |-> hostPort,
         TargetPort |-> port.ContainerPort]

\* one iteration of the loop of Kubernetes.ConfigServicePorts
ServicePortOf(port) ==
    LET hostPort == IF port.HostPort = 0 THEN port.ContainerPort ELSE port.HostPort
    IN  [Name |-> Itoa(hostPort),
         Protocol |-> IF port.Protocol = "TCP" THEN "" ELSE port.Protocol,
         Port |-> hostPort,
         TargetPort |-> port.ContainerPort]

\* Kubernetes.ConfigServicePorts
ConfigServicePorts(name, service) ==
    [i \in 1..Len(service.Port) |-> ServicePortOf(service.Port[i])]

\* the volume name taken from the claim name whether or not the mount names
\* a volume
VolumeNameOfClaim(volume, useEmptyVolumes) ==
    IF useEmptyVolumes
    THEN ReplaceFirst(volume.PVCName, ClaimStr, EmptyStr)
    ELSE volume.PVCName

\* the volume name the loop of Kubernetes.ConfigVolumes resolves for one mount
VolumeNameOf(volume, useEmptyVolumes) ==
    IF volume.VolumeName = <<>>
    THEN IF useEmptyVolumes
         THEN ReplaceFirst(volume.PVCName, ClaimStr, EmptyStr)
         ELSE volume.PVCName
    ELSE volume.VolumeName

\* Kubernetes.ConfigVolumes: the volumes of the pod and the claims to create
RECURSIVE ConfigVolumes(_, _, _)
ConfigVolumes(name, service, emptyVols) ==
    IF service.Volumes = <<>> THEN [volumes |-> <<>>, PVCs |-> <<>>]
    ELSE LET n == Len(service.Volumes)
             volume == service.Volumes[n]
             rest == ConfigVolumes(name, [service EXCEPT !.Volumes = SubSeq(@, 1, n - 1)],
                                   emptyVols)
             readonly == volume.Mode = "ro"
             volumeName == VolumeNameOf(volume, emptyVols)
             vol == [Name |-> volumeName,
                     Source |-> IF emptyVols THEN "EmptyDir" ELSE "PersistentVolumeClaim",
                     ReadOnly |-> readonly]
         IN  [volumes |-> Append(rest.volumes, vol),
              PVCs |-> IF ~emptyVols /\ volume.VFrom = <<>>
                       THEN Append(rest.PVCs,
                                   [CreatePVC(volumeName, volume.Mode) EXCEPT !.owner = name])
                       ELSE rest.PVCs]

ReplicaOfIgnoresFlag(service, o) ==
    IF service.Replicas = 0 THEN o.Replicas ELSE service.Replicas

\* the replica count chosen at the head of CreateKubernetesObjects and of
\* the loop of OpenShift.Transform
ReplicaOf(service, o) ==
    IF o.IsReplicaSetFlag \/ service.Replicas = 0 THEN o.Replicas ELSE service.Replicas

CreateKubernetesObjectsOneKind(name, service, o) ==
    IF o.CreateD THEN <<InitD(name, service, ReplicaOf(service, o))>>
    ELSE IF o.CreateDS THEN <<InitDS(name, service)>>
    ELSE IF o.CreateRC THEN <<InitRC(name, service, ReplicaOf(service, o))>>
    ELSE <<>>

\* Kubernetes.CreateKubernetesObjects
CreateKubernetesObjects(name, service, o) ==
    LET replica == ReplicaOf(service, o)
    IN  (IF o.CreateD THEN <<InitD(name, service, replica)>> ELSE <<>>)
        \o (IF o.CreateDS THEN <<InitDS(name, service)>> ELSE <<>>)
        \o (IF o.CreateRC THEN <<InitRC(name, service, replica)>> ELSE <<>>)

getImageTagOfWholeReference(ref) ==
    LET p == Split(ref, ":")
    IN  IF Len(p) = 2 THEN p[2] ELSE Latest

\* getImageTag
getImageTag(ref) ==
    LET i == Split(ref, "/")
        imageAndTag == IF Len(i) >= 2 THEN i[Len(i)] ELSE ref
        p == Split(imageAndTag, ":")
    IN  IF Len(p) = 2 THEN p[2] ELSE Latest

\* OpenShift.initImageStream
initImageStream(name, service, o) ==
    [Obj("ImageStream", name) EXCEPT
        !.tags = IF service.Build # <<>> \/ o.Build # "build-config"
                 THEN {[tag |-> getImageTag(service.Image), from |-> service.Image,
                        insecure |-> o.InsecureRepository]}
                 ELSE {}]

\* OpenShift.initDeploymentConfig
initDeploymentConfig(name, service, replicas) ==
    [Obj("DeploymentConfig", name) EXCEPT
        !.replicas = replicas,
        !.selector = ConfigLabels(name),
        !.image = <<" ">>,
        !.from = name \o <<":">> \o getImageTag(service.Image)]

initRouteHostAlways(name, service, port) ==
    [Obj("Route", name) EXCEPT !.port = port, !.host = service.ExposeService]

\* OpenShift.initRoute
initRoute(name, service, port) ==
    [Obj("Route", name) EXCEPT
        !.port = port,
        !.host = IF service.ExposeService # TRUEstr THEN service.ExposeService ELSE <<>>]

\* os.Getenv
Getenv(e, envName) == IF envName \in DOMAIN e.environ THEN e.environ[envName] ELSE <<>>

\* the names of a map sorted the way sort.Strings / sort.Stable(EnvSort) order them
RECURSIVE SortNames(_)
SortNames(S) ==
    IF S = {} THEN <<>>
    ELSE LET m == CHOOSE x \in S : \A y \in S \ {x} : StrLess(x, y)
         IN  <<m>> \o SortNames(S \ {m})

\* the loop of initBuildConfig over service.BuildArgs: the values stored back
\* through the map's pointers
SubstituteBuildArgs(service, e) ==
    [envName \in DOMAIN service.BuildArgs |->
        IF service.BuildArgs[envName] = Sentinel
        THEN Getenv(e, envName)
        ELSE service.BuildArgs[envName]]

EnvListValueStale(service, e, envName) == service.BuildArgs[envName]

\* the value the loop of initBuildConfig appends to envList for envName: the
\* one it has just stored back
EnvListValue(service, e, envName) == SubstituteBuildArgs(service, e)[envName]

\* initBuildConfig: the build object, the error, and service.BuildArgs as the
\* loop leaves it (the values are written through pointers, before the error
\* of getAbsBuildContext is looked at)
initBuildConfig(name, service, repo, branch, e) ==
    LET args == SubstituteBuildArgs(service, e)
        sorted == SortNames(DOMAIN args)
        envList == [i \in 1..Len(sorted) |->
                       [Name |-> sorted[i], Value |-> EnvListValue(service, e, sorted[i])]]
    IN  [err |-> IF e.ctxOk THEN "" ELSE "getAbsBuildContext failed",
         BuildArgs |-> args,
         bc |-> [Obj("BuildConfig", name) EXCEPT
                    !.source = <<branch, repo>>,
                    !.env = envList,
                    !.output = name \o <<":">> \o getImageTag(service.Image)]]

\* Kubernetes.UpdateController with the template update UpdateKubernetesObjects
\* passes: the kinds that carry a pod template get the pod's image and volumes
UpdateController(obj, service, volumes) ==
    IF obj.kind \in {"ReplicationController", "Deployment", "DaemonSet",
                     "DeploymentConfig", "Pod"}
    THEN [obj EXCEPT !.image = service.Image, !.volumes = volumes]
    ELSE obj

\* Kubernetes.UpdateKubernetesObjects: the claims of ConfigVolumes are appended
\* to the service's objects, then every object is updated
UpdateKubernetesObjects(name, service, objs, o) ==
    LET cv == ConfigVolumes(name, service, o.EmptyVols)
        all == objs \o cv.PVCs
    IN  [i \in 1..Len(all) |-> UpdateController(all[i], service, cv.volumes)]

\* Kubernetes.PortsExist
PortsExist(name, service) == Len(service.Port) # 0

\* Kubernetes.CreateService
CreateService(name, service, objs) ==
    [InitSvc(name, service) EXCEPT !.ports = ConfigServicePorts(name, service)]

\* Kubernetes.CreateHeadlessService
CreateHeadlessService(name, service, objs) ==
    InitSvc(name, service)

\* Kubernetes.SortServicesFirst
SortServicesFirst(objs) ==
    SelectSeq(objs, LAMBDA x : x.kind \in ExposureKinds)
    \o SelectSeq(objs, LAMBDA x : x.kind \notin ExposureKinds)

\* kubernetes.SortedKeys
SortedKeys(ko) == SortNames(DOMAIN ko)

(***************************************************************************)
(* CheckUnsupportedKey. kobject.ServiceConfig and the structs library are  *)
(* not part of the sources at hand: the fields are the ones the model      *)
(* carries, each with the kind of its Go type, and a field's tag is the    *)
(* key it goes by in the format the model was loaded from.                 *)
(***************************************************************************)
Fields ==
    <<"Image", "Restart", "Replicas", "Port", "Volumes", "Build", "BuildArgs",
      "ExposeService">>

FieldKind(f) ==
    CASE f \in {"Port", "Volumes"} -> "slice"
      [] f = "BuildArgs" -> "map"
      [] f = "Replicas" -> "int"
      [] f = "Restart" -> "enum"
      [] OTHER -> "string"

\* structs.Field.IsZero: the field holds the zero value of its type (a nil
\* slice or map; the model does not tell an empty one from nil)
IsZero(service, f) ==
    CASE FieldKind(f) = "int" -> service[f] = 0
      [] FieldKind(f) = "enum" -> service[f] = ""
      [] FieldKind(f) = "map" -> DOMAIN service[f] = {}
      [] OTHER -> service[f] = <<>>

\* structs.Field.Tag(komposeObject.LoadedFrom)
Tag(loadedFrom, f) ==
    IF loadedFrom = "compose"
    THEN CASE f = "Image" -> "image" [] f = "Restart" -> "restart"
           [] f = "Replicas" -> "replicas" [] f = "Port" -> "ports"
           [] f = "Volumes" -> "volumes" [] f = "Build" -> "build"
           [] f = "BuildArgs" -> "build-args" [] OTHER -> "expose"
    ELSE CASE f = "Image" -> "Image" [] f = "Port" -> "Ports"
           [] f = "Volumes" -> "Volumes" [] OTHER -> ""

\* the package variable unsupportedKey of openshift.go
NoKeys == [f \in {} |-> FALSE]

\* the body of the loop over the fields, reporting a field it has reported
\* without recording it
CheckFieldUnrecorded(acc, service, f, loadedFrom) ==
    IF /\ f \in DOMAIN acc.unsupportedKey
       /\ ~IsZero(service, f)
       /\ ~(FieldKind(f) = "slice" /\ Len(service[f]) = 0)
    THEN [acc EXCEPT !.keysFound = Append(@, Tag(loadedFrom, f))]
    ELSE acc

\* the body of the loop over the fields of one service
CheckField(acc, service, f, loadedFrom) ==
    IF /\ f \in DOMAIN acc.unsupportedKey
       /\ ~acc.unsupportedKey[f]
       /\ ~IsZero(service, f)
       /\ ~(FieldKind(f) = "slice" /\ Len(service[f]) = 0)
    THEN [keysFound |-> Append(acc.keysFound, Tag(loadedFrom, f)),
          unsupportedKey |-> [acc.unsupportedKey EXCEPT ![f] = TRUE]]
    ELSE acc

\* the loop over s.Fields()
RECURSIVE CheckFields(_, _, _, _)
CheckFields(acc, service, fs, loadedFrom) ==
    IF fs = <<>> THEN acc
    ELSE CheckFields(CheckField(acc, service, Head(fs), loadedFrom), service, Tail(fs),
                     loadedFrom)

\* the loop over komposeObject.ServiceConfigs, a map, in the order the range
\* statement happens to visit it
RECURSIVE CheckServices(_, _, _, _)
CheckServices(acc, order, ko, loadedFrom) ==
    IF order = <<>> THEN acc
    ELSE CheckServices(CheckFields(acc, ko[Head(order)], Fields, loadedFrom), Tail(order),
                       ko, loadedFrom)

\* Kubernetes.CheckUnsupportedKey: the keys found and the map as it leaves it
CheckUnsupportedKey(order, ko, loadedFrom, keys) ==
    CheckServices([keysFound |-> <<>>, unsupportedKey |-> keys], order, ko, loadedFrom)

\* the orders in which a range statement may visit the keys S of a map
Orders(S) ==
    {q \in [1..Cardinality(S) -> S] : \A x \in S : \E i \in 1..Cardinality(S) : q[i] = x}

(***************************************************************************)
(* Transform. acc is the state of one run of the loop over the sorted      *)
(* service names: status ("ok" while the loop runs, "error" after a        *)
(* return nil, err, "exit" after log.Fatalf), err, allobjects, the build   *)
(* and push calls made, the service model (its BuildArgs values are        *)
(* reached through pointers), the locals buildRepo and buildBranch, and    *)
(* the services skipped by the continue of OpenShift.Transform.            *)
(***************************************************************************)
Call(op, kind, name, ok, found) ==
    [op |-> op, kind |-> kind, name |-> name, ok |-> ok, found |-> found]

Fail(acc, how, err) == [acc EXCEPT !.status = how, !.err = err]

\* the build-and-push block going on after a failed build or push
BuildAndPushIgnoresFailure(name, service, o, e) ==
    IF ~(o.Build = "local" /\ o.InputFiles # <<>> /\ service.Build # <<>>)
    THEN [stop |-> "", calls |-> <<>>]
    ELSE IF service.Image = <<>> THEN [stop |-> "image key required", calls |-> <<>>]
    ELSE [stop |-> "",
          calls |-> <<Call("build", "", name, e.buildOk, {}),
                      Call("push", "", name, e.pushOk, {})>>]

\* the build-and-push block with the image name defaulted before it
BuildAndPushDefaultsImage(name, service, o, e) ==
    IF ~(o.Build = "local" /\ o.InputFiles # <<>> /\ service.Build # <<>>)
    THEN [stop |-> "", calls |-> <<>>]
    ELSE [stop |-> "",
          calls |-> <<Call("build", "", name, TRUE, {}), Call("push", "", name, TRUE, {})>>]

\* the build-and-push block shared by both Transform loops: the calls it
\* makes and the point at which it stops ("" when it runs through)
BuildAndPush(name, service, o, e) ==
    IF ~(o.Build = "local" /\ o.InputFiles # <<>> /\ service.Build # <<>>)
    THEN [stop |-> "", calls |-> <<>>]
    ELSE IF service.Image = <<>> THEN [stop |-> "image key required", calls |-> <<>>]
    ELSE IF ~e.cwdOk THEN [stop |-> "GetComposeFileDir failed", calls |-> <<>>]
    ELSE IF ~e.buildOk
         THEN [stop |-> "Unable to build Docker image",
               calls |-> <<Call("build", "", name, FALSE, {})>>]
    ELSE IF ~e.pushOk
         THEN [stop |-> "Unable to push Docker image",
               calls |-> <<Call("build", "", name, TRUE, {}),
                           Call("push", "", name, FALSE, {})>>]
    ELSE [stop |-> "",
          calls |-> <<Call("build", "", name, TRUE, {}), Call("push", "", name, TRUE, {})>>]

IsPodOnlyNoOnly(service) == service.Restart = "no"

\* the test that sends a service down the "pod only" branch of both loops
IsPodOnly(service) == service.Restart = "no" \/ service.Restart = "on-failure"

\* service.Image defaulted to the service's name ("If there's no image key")
WithImage(name, service) ==
    IF service.Image = <<>> THEN [service EXCEPT !.Image = name] ELSE service

\* the Service object of a service with ports, followed by its ingress or
\* route when the service is exposed
Exposed(service, svc, route) ==
    IF service.ExposeService # <<>> THEN <<svc, route>> ELSE <<svc>>

\* the controller branch of the loop of Kubernetes.Transform
KubernetesObjects(name, service, svc, o) ==
    CreateKubernetesObjects(name, service, o)
    \o (IF PortsExist(name, service)
        THEN Exposed(service, svc, initIngress(name, service, svc.ports[1].Port))
        ELSE <<CreateHeadlessService(name, service, <<>>)>>)

\* the loop of Kubernetes.Transform after the build-and-push block
KubernetesBranch(name, service, acc, o) ==
    IF IsPodOnly(service)
    THEN IF o.IsDeploymentFlag \/ o.IsDaemonSetFlag \/ o.IsReplicationControllerFlag
         THEN Fail(acc, "error", "Controller object cannot be specified")
         ELSE [acc EXCEPT !.allobjects =
                  @ \o UpdateKubernetesObjects(name, service, <<InitPod(name, service)>>, o)]
    ELSE [acc EXCEPT !.allobjects =
             @ \o UpdateKubernetesObjects(
                      name, service,
                      KubernetesObjects(name, service, CreateService(name, service, <<>>), o),
                      o)]

\* the loop of Kubernetes.Transform once the build-and-push block has ended
KubernetesAfterBuild(name, bp, acc, o) ==
    IF bp.stop # ""
    THEN Fail([acc EXCEPT !.calls = @ \o bp.calls], "error", bp.stop)
    ELSE KubernetesBranch(name, WithImage(name, acc.ko[name]),
                          [acc EXCEPT !.calls = @ \o bp.calls], o)

\* the body of the loop of Kubernetes.Transform for one service
KubernetesBody(name, acc, o, e) ==
    KubernetesAfterBuild(name, BuildAndPush(name, acc.ko[name], o, e), acc, o)

\* the end of the build-config block: initBuildConfig has run
BuildConfigEnd(branch, repo, ibc) ==
    [end |-> IF ibc.err # "" THEN "initBuildConfig failed" ELSE "",
     buildBranch |-> branch, buildRepo |-> repo,
     BuildArgs |-> ibc.BuildArgs,
     bc |-> IF ibc.err # "" THEN <<>> ELSE <<ibc.bc>>]

\* the build-config block once the branch and the repository it would use
\* are known
BuildConfigDetect(name, service, acc, o, e, branch, repo) ==
    IF ~e.cwdOk
    THEN [end |-> "continue", buildBranch |-> acc.buildBranch,
          buildRepo |-> acc.buildRepo, BuildArgs |-> service.BuildArgs, bc |-> <<>>]
    ELSE IF ~e.hasGit /\ (acc.buildRepo = <<>> \/ acc.buildBranch = <<>>)
    THEN [end |-> "Git is not installed", buildBranch |-> acc.buildBranch,
          buildRepo |-> acc.buildRepo, BuildArgs |-> service.BuildArgs, bc |-> <<>>]
    ELSE IF acc.buildBranch = <<>> /\ ~e.branchOk
    THEN [end |-> "current git branch couldn't be detected",
          buildBranch |-> acc.buildBranch, buildRepo |-> acc.buildRepo,
          BuildArgs |-> service.BuildArgs, bc |-> <<>>]
    ELSE IF o.BuildRepo = <<>> /\ ~e.remoteOk
    THEN [end |-> "git remote origin repo couldn't be detected",
          buildBranch |-> branch, buildRepo |-> acc.buildRepo,
          BuildArgs |-> service.BuildArgs, bc |-> <<>>]
    ELSE BuildConfigEnd(branch, repo, initBuildConfig(name, service, repo, branch, e))

\* the build-config block of the loop of OpenShift.Transform: how it ends
\* ("continue", an error, or "" with the build object), and the locals and
\* the build arguments as it leaves them
BuildConfigBlock(name, service, acc, o, e) ==
    IF service.Build # <<>> /\ o.Build = "build-config"
    THEN BuildConfigDetect(name, service, acc, o, e,
                           IF acc.buildBranch = <<>> THEN e.branch ELSE acc.buildBranch,
                           IF o.BuildRepo = <<>> THEN e.remote ELSE acc.buildRepo)
    ELSE [end |-> "", buildBranch |-> acc.buildBranch, buildRepo |-> acc.buildRepo,
          BuildArgs |-> service.BuildArgs, bc |-> <<>>]

\* the controller objects of the loop of OpenShift.Transform: those of
\* CreateKubernetesObjects, then the deployment config and its image stream
OpenShiftControllers(name, service, o) ==
    CreateKubernetesObjects(name, service, o)
    \o (IF o.CreateDeploymentConfig
        THEN <<initDeploymentConfig(name, service, ReplicaOf(service, o)),
               initImageStream(name, service, o)>>
        ELSE <<>>)

\* the objects of the controller branch with the build object put first
OpenShiftObjectsBuildFirst(name, service, svc, bc, o) ==
    bc \o OpenShiftControllers(name, service, o)
    \o (IF PortsExist(name, service)
        THEN Exposed(service, svc, initRoute(name, service, svc.ports[1].Port))
        ELSE <<CreateHeadlessService(name, service, <<>>)>>)

\* the objects of the controller branch of the loop of OpenShift.Transform
OpenShiftObjects(name, service, svc, bc, o) ==
    OpenShiftControllers(name, service, o) \o bc
    \o (IF PortsExist(name, service)
        THEN Exposed(service, svc, initRoute(name, service, svc.ports[1].Port))
        ELSE <<CreateHeadlessService(name, service, <<>>)>>)

\* the controller branch of the loop of OpenShift.Transform once the
\* build-config block has ended
OpenShiftAfterBlock(name, service, acc, blk, o) ==
    IF blk.end = "continue" THEN [acc EXCEPT !.skipped = @ \cup {name}]
    ELSE IF blk.end # ""
    THEN [acc EXCEPT !.status = "error", !.err = blk.end,
                     !.buildBranch = blk.buildBranch, !.buildRepo = blk.buildRepo,
                     !.ko[name].BuildArgs = blk.BuildArgs]
    ELSE [acc EXCEPT !.buildBranch = blk.buildBranch, !.buildRepo = blk.buildRepo,
                     !.ko[name].BuildArgs = blk.BuildArgs,
                     !.allobjects =
                        @ \o UpdateKubernetesObjects(
                                 name, service,
                                 OpenShiftObjects(name, service,
                                                  CreateService(name, service, <<>>),
                                                  blk.bc, o),
                                 o)]

\* the loop of OpenShift.Transform after the build-and-push block
OpenShiftBranch(name, service, acc, o, e) ==
    IF IsPodOnly(service)
    THEN IF o.IsDeploymentConfigFlag
         THEN Fail(acc, "error", "Controller object cannot be specified")
         ELSE [acc EXCEPT !.allobjects =
                  @ \o UpdateKubernetesObjects(name, service, <<InitPod(name, service)>>, o)]
    ELSE OpenShiftAfterBlock(name, service, acc,
                             BuildConfigBlock(name, service, acc, o, e), o)

\* the loop of OpenShift.Transform once the build-and-push block has ended:
\* a failed build or push ends the process (log.Fatalf)
OpenShiftAfterBuild(name, bp, acc, o, e) ==
    IF bp.stop \in {"image key required", "GetComposeFileDir failed"}
    THEN Fail([acc EXCEPT !.calls = @ \o bp.calls], "error", bp.stop)
    ELSE IF bp.stop # ""
    THEN Fail([acc EXCEPT !.calls = @ \o bp.calls], "exit", bp.stop)
    ELSE OpenShiftBranch(name, WithImage(name, acc.ko[name]),
                         [acc EXCEPT !.calls = @ \o bp.calls], o, e)

\* the body of the loop of OpenShift.Transform for one service
OpenShiftBody(name, acc, o, e) ==
    OpenShiftAfterBuild(name, BuildAndPush(name, acc.ko[name], o, e), acc, o, e)

SortAllObjectsSkipped(allobjects) == allobjects

\* the call k.SortServicesFirst(&allobjects) that ends both Transforms
SortAllObjects(allobjects) == SortServicesFirst(allobjects)

\* the service named by the error that ended the loop, if one did
StoppedAt(acc, name) == IF acc.status # "ok" THEN [acc EXCEPT !.at = name] ELSE acc

\* the loop over sortedKeys, stopped by the first return or exit
RECURSIVE TransformLoop(_, _, _, _)
TransformLoop(keys, acc, o, e) ==
    IF keys = <<>> \/ acc.status # "ok" THEN acc
    ELSE TransformLoop(Tail(keys),
                       StoppedAt(IF o.Provider = "openshift"
                                 THEN OpenShiftBody(Head(keys), acc, o, e)
                                 ELSE KubernetesBody(Head(keys), acc, o, e),
                                 Head(keys)),
                       o, e)

\* Kubernetes.Transform / OpenShift.Transform: the run's outcome; the graph
\* is returned only when the loop ran through, sorted by SortServicesFirst
Transform(ko, o, e) ==
    LET acc0 == [status |-> "ok", err |-> "", allobjects |-> <<>>, calls |-> <<>>,
                 ko |-> ko, buildRepo |-> o.BuildRepo, buildBranch |-> o.BuildBranch,
                 skipped |-> {}, at |-> <<>>]
        acc == TransformLoop(SortedKeys(ko), acc0, o, e)
    IN  [status |-> acc.status, err |-> acc.err, calls |-> acc.calls, ko |-> acc.ko,
         skipped |-> acc.skipped, at |-> acc.at,
         emitted |-> IF acc.status = "ok" THEN acc.allobjects ELSE <<>>,
         allobjects |-> IF acc.status = "ok" THEN SortAllObjects(acc.allobjects)
                        ELSE <<>>]

(***************************************************************************)
(* Inputs. A run is given a service model of one or two services, the      *)
(* options the command line produced and an environment; the sets below    *)
(* are the ones the initial states are drawn from.                         *)
(***************************************************************************)
WEB == <<"w", "e", "b">>
DB == <<"d", "b">>
HostStr == <<"w", ".", "e">>
ImgStr == <<"a", "/", "b">>
ImgTagStr == <<"a", "/", "b", ":", "1">>
CtxStr == <<"c">>
NamedVol == <<"d", "a", "t", "a">>
ArgK == <<"K">>
ArgJ == <<"J">>

Restarts == {"always", "no", "on-failure"}

PortSet ==
    {[ContainerPort |-> 80, HostPort |-> 0, Protocol |-> "TCP"],
     [ContainerPort |-> 53, HostPort |-> 5353, Protocol |-> "UDP"]}

PortSeqs == UNION {[1..n -> PortSet] : n \in 0..MaxPorts}

\* the mounts the loader produces for service name: an anonymous mount (its
\* claim named <name>-claim<index>), a named read-only volume, and a mount
\* taken from the other service (volumes_from)
ClaimName(name, index) == name \o <<"-">> \o ClaimStr \o Itoa(index)

Vol(volumeName, pvcName, vfrom, mode) ==
    [VolumeName |-> volumeName, PVCName |-> pvcName, VFrom |-> vfrom, Mode |-> mode]

VolSeqs(name, other) ==
    {<<>>,
     <<Vol(<<>>, ClaimName(name, 0), <<>>, "")>>,
     <<Vol(NamedVol, ClaimName(name, 0), <<>>, "ro")>>,
     <<Vol(<<>>, ClaimName(other, 0), other, "")>>,
     <<Vol(<<>>, ClaimName(name, 0), <<>>, "rw"), Vol(NamedVol, ClaimName(name, 1), <<>>, "")>>}

NoArgs == [x \in {} |-> <<>>]
ArgSets ==
    {NoArgs,
     [x \in {ArgK} |-> Sentinel],
     [x \in {ArgJ, ArgK} |-> IF x = ArgK THEN Sentinel ELSE <<"v">>]}

Svc(restart, ports, expose, vols, image, build, args, replicas) ==
    [Image |-> image, Restart |-> restart, Replicas |-> replicas, Port |-> ports,
     Volumes |-> vols, Build |-> build, BuildArgs |-> args, ExposeService |-> expose]

\* the controller toggles and "flag was given" markers for the set of
\* controller flags given on the command line (none given: the provider's
\* default controller)
FlagSets == {{}, {"D"}, {"DS"}, {"RC"}, {"DC"}, {"D", "DS"}, {"RC", "DC"}}

Opt(provider, flags, emptyVols, build, repo, branch, isReplicaSetFlag, replicas) ==
    [Provider |-> provider,
     CreateD |-> "D" \in flags \/ (flags = {} /\ provider = "kubernetes"),
     CreateDS |-> "DS" \in flags,
     CreateRC |-> "RC" \in flags,
     CreateDeploymentConfig |-> "DC" \in flags \/ (flags = {} /\ provider = "openshift"),
     IsDeploymentFlag |-> "D" \in flags,
     IsDaemonSetFlag |-> "DS" \in flags,
     IsReplicationControllerFlag |-> "RC" \in flags,
     IsDeploymentConfigFlag |-> "DC" \in flags,
     IsReplicaSetFlag |-> isReplicaSetFlag,
     Replicas |-> replicas,
     EmptyVols |-> emptyVols,
     Build |-> build,
     BuildRepo |-> repo,
     BuildBranch |-> branch,
     InsecureRepository |-> FALSE,
     InputFiles |-> <<"docker-compose.yml">>]

Providers == {"kubernetes", "openshift"}

\* the environment in which everything works, and the ones in which one
\* collaborator fails
EnvOK ==
    [cwdOk |-> TRUE, hasGit |-> TRUE, branchOk |-> TRUE, remoteOk |-> TRUE,
     ctxOk |-> TRUE, buildOk |-> TRUE, pushOk |-> TRUE,
     branch |-> <<"m">>, remote |-> <<"r">>,
     environ |-> [x \in {ArgK} |-> <<"e">>]]

Envs ==
    {EnvOK} \cup {[EnvOK EXCEPT ![f] = FALSE] :
                     f \in {"cwdOk", "hasGit", "branchOk", "remoteOk", "ctxOk",
                            "buildOk", "pushOk"}}

\* a service model of web alone, or of web and db
Model(web, db) ==
    [n \in (IF db = <<>> THEN {WEB} ELSE {WEB, DB}) |-> IF n = WEB THEN web ELSE db[1]]

\* models that vary what web exposes and mounts
ShapeModels ==
    {Model(Svc(r, p, x, v, ImgStr, <<>>, NoArgs, 0), db) :
        r \in Restarts, p \in PortSeqs, x \in {<<>>, TRUEstr, HostStr},
        v \in VolSeqs(WEB, DB),
        db \in {<<>>,
                <<Svc("always", <<>>, <<>>, <<>>, ImgStr, <<>>, NoArgs, 0)>>,
                <<Svc("no", <<>>, <<>>, <<Vol(NamedVol, ClaimName(DB, 0), <<>>, "")>>,
                      <<>>, <<>>, NoArgs, 0)>>}}

ShapeOpts ==
    {Opt(pr, f, ev, "none", <<>>, <<>>, FALSE, 1) :
        pr \in Providers, f \in FlagSets, ev \in BOOLEAN}

\* models that vary what web builds from
BuildModels ==
    {Model(Svc(r, <<CHOOSE p \in PortSet : p.HostPort = 0>>, TRUEstr, <<>>, i, b[1], b[2], 0),
           db) :
        r \in {"always", "no"}, i \in {<<>>, ImgStr, ImgTagStr},
        b \in {<<(<<>>), NoArgs>>} \cup {<<CtxStr, a>> : a \in ArgSets},
        db \in {<<>>,
                <<Svc("always", <<>>, <<>>, <<>>, ImgStr, <<>>, NoArgs, 0)>>,
                <<Svc("always", <<>>, <<>>, <<>>, ImgStr, CtxStr,
                      [x \in {ArgK} |-> Sentinel], 0)>>}}

BuildOpts ==
    {Opt(pr, {}, FALSE, b, g[1], g[2], FALSE, 1) :
        pr \in Providers, b \in {"none", "local", "build-config"},
        g \in {<<(<<>>), (<<>>)>>, <<(<<"u">>), (<<"x">>)>>}}

\* models and options that vary the replica count
ReplicaModels ==
    {Model(Svc("always", <<>>, <<>>, <<>>, ImgStr, <<>>, NoArgs, n), <<>>) : n \in {0, 3}}

ReplicaOpts ==
    {Opt(pr, f, FALSE, "none", <<>>, <<>>, rs, n) :
        pr \in Providers, f \in {{}, {"RC"}, {"DS"}, {"RC", "DC"}},
        rs \in BOOLEAN, n \in {1, 2}}

Inputs ==
    (ShapeModels \X ShapeOpts \X {EnvOK})
    \cup (BuildModels \X BuildOpts \X Envs)
    \cup (ReplicaModels \X ReplicaOpts \X {EnvOK})

NoRet == [status |-> "", err |-> "", skipped |-> {}, emitted |-> <<>>, at |-> <<>>]

Init ==
    /\ \E in \in Inputs :
          /\ loaded = in[1]
          /\ komposeObject = in[1]
          /\ opt = in[2]
          /\ env = in[3]
    /\ cluster = {}
    /\ pc = "start"
    /\ objects = <<>>
    /\ ret = NoRet
    /\ first = [status |-> "", objects |-> <<>>]
    /\ idx = 0
    /\ items = {}
    /\ errorList = <<>>
    /\ calls = <<>>
    /\ faults = 0
    /\ img = <<>>
    /\ unsupportedKey = NoKeys
    /\ keyChecks = <<>>
    /\ tag = <<>>

(***************************************************************************)
(* A conversion: Transform is run, and may be run a second time by the     *)
(* same process on the model the first run left.                           *)
(***************************************************************************)
\* a call of CheckUnsupportedKey on ko with the package's map
KeysChecked(ko, loadedFrom, r) ==
    /\ unsupportedKey' = r.unsupportedKey
    /\ keyChecks' = Append(keyChecks, [ko |-> ko, loadedFrom |-> loadedFrom,
                                       keysFound |-> r.keysFound])

\* the head of OpenShift.Transform: CheckUnsupportedKey on the model it was
\* given (Kubernetes.Transform does not call it)
Checked(ko) ==
    IF opt.Provider = "openshift"
    THEN \E order \in Orders(DOMAIN ko) :
             KeysChecked(ko, "compose", CheckUnsupportedKey(order, ko, "compose", unsupportedKey))
    ELSE UNCHANGED <<unsupportedKey, keyChecks>>

\* what a run of Transform that returned t leaves behind
Ran(t) ==
    /\ komposeObject' = t.ko
    /\ objects' = t.allobjects
    /\ ret' = [status |-> t.status, err |-> t.err, skipped |-> t.skipped,
               emitted |-> t.emitted, at |-> t.at]
    /\ calls' = calls \o t.calls

Converted(t, next) ==
    /\ Ran(t)
    /\ pc' = IF t.status = "exit" THEN "exited" ELSE next

RunTransform(next) ==
    /\ Checked(komposeObject)
    /\ Converted(Transform(komposeObject, opt, env), next)

Convert ==
    /\ pc = "start"
    /\ RunTransform("converted")
    /\ first' = [status |-> ret'.status, objects |-> objects']
    /\ UNCHANGED <<img, tag, loaded, opt, env, cluster, idx, items, errorList, faults>>

ConvertAgain ==
    /\ pc = "converted"
    /\ RunTransform("reconverted")
    /\ UNCHANGED <<img, tag, loaded, opt, env, cluster, first, idx, items, errorList, faults>>

Next == Convert \/ ConvertAgain

Spec == Init /\ [][Next]_vars

(***************************************************************************)
(* The control plane. A live object has a kind, a name and a label set;    *)
(* names are unique within a kind. Create fails on an existing name,       *)
(* delete and the reapers' Stop fail on a missing one, and any call may    *)
(* fail for a reason of its own (at most MaxFaults times in a behaviour).  *)
(***************************************************************************)
Live(o) == [kind |-> o.kind, name |-> o.name, labels |-> o.labels]

Exists(cl, kind, name) == \E l \in cl : l.kind = kind /\ l.name = name

\* what List returns for a label selector on Selector = name
Listed(cl, kind, name) ==
    {l \in cl : l.kind = kind /\ <<Selector, name>> \in l.labels}

ExtraLabel == <<"app", <<"x">>>>

\* live objects that a graph object's selector matches although the graph did
\* not produce them: the object with one more label, and objects of another
\* name with the same labels or with one more
Decoys(o) ==
    {[kind |-> o.kind, name |-> o.name, labels |-> o.labels \cup {ExtraLabel}],
     [kind |-> o.kind, name |-> o.name \o <<"2">>, labels |-> o.labels],
     [kind |-> o.kind, name |-> o.name \o <<"2">>, labels |-> o.labels \cup {ExtraLabel}]}

\* the clusters a run may meet: empty or holding the graph's objects, and in
\* either case possibly one decoy (which takes the place of the object of
\* its name)
Clusters(g) ==
    LET deployed == {Live(g[i]) : i \in 1..Len(g)}
        decoys == UNION {Decoys(g[i]) : i \in 1..Len(g)}
        With(base, d) == {l \in base : ~(l.kind = d.kind /\ l.name = d.name)} \cup {d}
    IN  {{}, deployed} \cup {With(b, d) : b \in {{}, deployed}, d \in decoys}

\* the kinds the type switches of Deploy and Undeploy have a case for
KubernetesCases == {"Deployment", "Service", "PersistentVolumeClaim", "Ingress", "Pod"}
OpenShiftCases ==
    {"ImageStream", "BuildConfig", "DeploymentConfig", "Service",
     "PersistentVolumeClaim", "Route", "Pod"}
Cases == IF opt.Provider = "openshift" THEN OpenShiftCases ELSE KubernetesCases

\* the kinds Undeploy removes with a reaper's Stop(namespace, name, TIMEOUT, nil)
KubernetesReaped == {"Deployment", "Service", "Pod"}
OpenShiftReaped == {"BuildConfig", "DeploymentConfig", "Service", "Pod"}
Reaped == IF opt.Provider = "openshift" THEN OpenShiftReaped ELSE KubernetesReaped

\* the pc after the object at idx has been dealt with
After(loop, done) == IF idx + 1 > Len(objects) THEN done ELSE loop

(***************************************************************************)
(* Deploy.                                                                 *)
(***************************************************************************)
\* the error a failed Transform returned
TransformError(t) ==
    [op |-> "Transform", kind |-> "", name |-> <<>>, msg |-> t.err, wrapped |-> ""]

\* errors.Wrap(err, message)
Wrap(err, message) == [err EXCEPT !.wrapped = message]

\* Kubernetes.Deploy / OpenShift.Deploy up to the loop: Transform, then the
\* clients
Deploying(t) ==
    /\ Ran(t)
    /\ first' = [status |-> t.status, objects |-> t.allobjects]
    /\ \/ /\ t.status = "exit"
          /\ pc' = "exited"
          /\ UNCHANGED <<errorList, faults>>
       \/ /\ t.status = "error"
          /\ pc' = "deploy failed"
          /\ errorList' = <<Wrap(TransformError(t), "Transform failed")>>
          /\ UNCHANGED faults
       \/ /\ t.status = "ok"
          /\ pc' = IF t.allobjects = <<>> THEN "deployed" ELSE "deploy"
          /\ UNCHANGED <<errorList, faults>>
       \/ /\ t.status = "ok"
          /\ faults < MaxFaults
          /\ faults' = faults + 1
          /\ pc' = "deploy failed"
          /\ errorList' = <<[op |-> "client", kind |-> "", name |-> <<>>]>>

DeployBegin ==
    /\ pc = "start"
    /\ Checked(komposeObject)
    /\ Deploying(Transform(komposeObject, opt, env))
    /\ idx' = 1
    /\ items' = {}
    /\ UNCHANGED <<img, tag, loaded, opt, env, cluster>>

\* the pc after a Create call has returned an error: `return err`
AfterCreateErrorGoesOn == After("deploy", "deployed")

AfterCreateError == "deploy failed"

\* one iteration of the loop of Deploy on an object whose kind has a case
DeployCreate ==
    /\ pc = "deploy"
    /\ objects[idx].kind \in Cases
    /\ LET t == objects[idx]
       IN  \/ /\ ~Exists(cluster, t.kind, t.name)
              /\ cluster' = cluster \cup {Live(t)}
              /\ calls' = Append(calls, Call("create", t.kind, t.name, TRUE, {}))
              /\ pc' = After("deploy", "deployed")
              /\ idx' = idx + 1
              /\ UNCHANGED <<errorList, faults>>
           \/ /\ Exists(cluster, t.kind, t.name) \/ faults < MaxFaults
              /\ faults' = IF Exists(cluster, t.kind, t.name) THEN faults ELSE faults + 1
              /\ calls' = Append(calls, Call("create", t.kind, t.name, FALSE, {}))
              /\ errorList' = <<[op |-> "create", kind |-> t.kind, name |-> t.name]>>
              /\ pc' = AfterCreateError
              /\ UNCHANGED <<cluster, idx>>
    /\ UNCHANGED <<unsupportedKey, keyChecks, img, tag, loaded, komposeObject, opt, env, objects, ret, first, items>>

\* one iteration of the loop of Deploy on an object no case matches
DeploySkip ==
    /\ pc = "deploy"
    /\ objects[idx].kind \notin Cases
    /\ pc' = After("deploy", "deployed")
    /\ idx' = idx + 1
    /\ UNCHANGED <<unsupportedKey, keyChecks, img, tag, loaded, komposeObject, opt, env, cluster, objects, ret, first, items,
                   errorList, calls, faults>>

(***************************************************************************)
(* Undeploy. It may be the process's only command or follow a Deploy, as   *)
(* a new process that loads the model again.                               *)
(***************************************************************************)
\* Undeploy returning without the error Transform returned
UndeployTransformFailedSilent(t) == <<>>

\* the error list Undeploy returns when Transform returned an error
UndeployTransformFailed(t) == <<TransformError(t)>>

\* Kubernetes.Undeploy / OpenShift.Undeploy up to the loop
Undeploying(t) ==
    /\ Ran(t)
    /\ first' = IF pc = "start" THEN [status |-> t.status, objects |-> t.allobjects]
                ELSE first
    /\ \/ /\ t.status = "exit"
          /\ pc' = "exited"
          /\ errorList' = <<>>
          /\ UNCHANGED faults
       \/ /\ t.status = "error"
          /\ pc' = "undeployed"
          /\ errorList' = UndeployTransformFailed(t)
          /\ UNCHANGED faults
       \/ /\ t.status = "ok"
          /\ pc' = IF t.allobjects = <<>> THEN "undeployed" ELSE "undeploy"
          /\ errorList' = <<>>
          /\ UNCHANGED faults
       \/ /\ t.status = "ok"
          /\ faults < MaxFaults
          /\ faults' = faults + 1
          /\ pc' = "undeployed"
          /\ errorList' = <<[op |-> "client", kind |-> "", name |-> <<>>]>>

UndeployBegin ==
    /\ pc \in {"start", "deployed", "deploy failed"}
    /\ Checked(loaded)
    /\ Undeploying(Transform(loaded, opt, env))
    /\ idx' = 1
    /\ items' = {}
    /\ UNCHANGED <<img, tag, loaded, opt, env, cluster>>

\* the pc after an error has been appended and `break` has left the switch
\* (or the loop over the items, which ends the case): the loop over the
\* graph goes on with the next object
AfterErrorReturns == "undeployed"

AfterError == After("undeploy", "undeployed")

\* the error list after a List call that returned no error: as it was,
\* whether or not the result has items
AfterListNoneIsError(t, found) ==
    IF found = {}
    THEN Append(errorList, [op |-> "list", kind |-> t.kind, name |-> t.name])
    ELSE errorList

AfterList(t, found) == errorList

\* the test on a listed item, as a selector would make it
LabelsMatchSelector(l, t) == <<Selector, t.name>> \in l.labels

\* the test on a listed item: reflect.DeepEqual(l.Labels, komposeLabel)
LabelsMatch(l, t) == l.labels = {<<Selector, t.name>>}

\* the List call of one iteration of the loop of Undeploy. On an error the
\* error is appended and the switch is left (the Pod case of
\* Kubernetes.Undeploy goes on to range over the items of the result, which
\* has none)
UndeployList ==
    /\ pc = "undeploy"
    /\ objects[idx].kind \in Cases
    /\ LET t == objects[idx]
           found == Listed(cluster, t.kind, t.name)
       IN  \/ /\ calls' = Append(calls, Call("list", t.kind, t.name, TRUE, found))
              /\ IF found = {}
                 THEN /\ pc' = After("undeploy", "undeployed")
                      /\ idx' = idx + 1
                      /\ items' = {}
                 ELSE /\ pc' = "undeploy items"
                      /\ idx' = idx
                      /\ items' = found
              /\ errorList' = AfterList(t, found)
              /\ UNCHANGED faults
           \/ /\ faults < MaxFaults
              /\ faults' = faults + 1
              /\ calls' = Append(calls, Call("list", t.kind, t.name, FALSE, {}))
              /\ errorList' = Append(errorList, [op |-> "list", kind |-> t.kind,
                                                 name |-> t.name])
              /\ pc' = AfterError
              /\ idx' = idx + 1
              /\ items' = {}
    /\ UNCHANGED <<unsupportedKey, keyChecks, img, tag, loaded, komposeObject, opt, env, cluster, objects, ret, first>>

\* one iteration of the loop of Undeploy on an object no case matches
UndeploySkip ==
    /\ pc = "undeploy"
    /\ objects[idx].kind \notin Cases
    /\ pc' = After("undeploy", "undeployed")
    /\ idx' = idx + 1
    /\ UNCHANGED <<unsupportedKey, keyChecks, img, tag, loaded, komposeObject, opt, env, cluster, objects, ret, first, items,
                   errorList, calls, faults>>

\* the listed item's own name as the name to remove
TargetListed(l, t) == l.name

\* the name handed to Stop or Delete for the listed item l of graph object t
Target(l, t) == t.name

\* one iteration of the loop over the listed items: an item whose labels are
\* the expected ones has the graph object's name deleted (or stopped by its
\* reaper); an error is appended and ends the loop over the items
UndeployItem ==
    /\ pc = "undeploy items"
    /\ \E l \in items :
          LET t == objects[idx]
              rest == items \ {l}
              op == IF t.kind \in Reaped THEN "stop" ELSE "delete"
          IN  \/ /\ ~LabelsMatch(l, t)
                 /\ items' = rest
                 /\ pc' = IF rest = {} THEN After("undeploy", "undeployed") ELSE pc
                 /\ idx' = IF rest = {} THEN idx + 1 ELSE idx
                 /\ UNCHANGED <<cluster, calls, errorList, faults>>
              \/ /\ LabelsMatch(l, t)
                 /\ Exists(cluster, t.kind, Target(l, t))
                 /\ cluster' = {x \in cluster : ~(x.kind = t.kind /\ x.name = Target(l, t))}
                 /\ calls' = Append(calls, Call(op, t.kind, Target(l, t), TRUE, {}))
                 /\ items' = rest
                 /\ pc' = IF rest = {} THEN After("undeploy", "undeployed") ELSE pc
                 /\ idx' = IF rest = {} THEN idx + 1 ELSE idx
                 /\ UNCHANGED <<errorList, faults>>
              \/ /\ LabelsMatch(l, t)
                 /\ ~Exists(cluster, t.kind, Target(l, t)) \/ faults < MaxFaults
                 /\ faults' = IF Exists(cluster, t.kind, Target(l, t)) THEN faults + 1 ELSE faults
                 /\ calls' = Append(calls, Call(op, t.kind, Target(l, t), FALSE, {}))
                 /\ errorList' = Append(errorList, [op |-> op, kind |-> t.kind,
                                                    name |-> Target(l, t)])
                 /\ items' = {}
                 /\ pc' = AfterError
                 /\ idx' = idx + 1
                 /\ UNCHANGED cluster
    /\ UNCHANGED <<unsupportedKey, keyChecks, img, tag, loaded, komposeObject, opt, env, objects, ret, first>>

(***************************************************************************)
(* The runs against a cluster: a narrower set of models and options, each  *)
(* met with the clusters its own graph gives rise to.                      *)
(***************************************************************************)
RunModels ==
    {Model(Svc(r, <<CHOOSE p \in PortSet : p.HostPort = 0>>, HostStr,
               <<Vol(NamedVol, ClaimName(WEB, 0), <<>>, "")>>, ImgStr, <<>>, NoArgs, 0), db) :
        r \in {"always", "no"},
        db \in {<<>>,
                <<Svc("no", <<>>, <<>>, <<Vol(NamedVol, ClaimName(DB, 0), <<>>, "")>>,
                      <<>>, <<>>, NoArgs, 0)>>}}

RunOpts ==
    {Opt(pr, f, FALSE, "none", <<>>, <<>>, FALSE, 1) :
        pr \in Providers, f \in {{}, {"RC"}, {"D", "DS"}}}

RunBuildModels ==
    {Model(Svc("always", <<>>, <<>>, <<>>, ImgStr, CtxStr, [x \in {ArgK} |-> Sentinel], 0),
           db) :
        db \in {<<>>, <<Svc("always", <<>>, <<>>, <<>>, ImgStr, CtxStr, NoArgs, 0)>>}}

RunBuildOpts ==
    {Opt("openshift", {}, TRUE, "build-config", <<>>, <<>>, FALSE, 1),
     Opt("openshift", {}, TRUE, "local", <<>>, <<>>, FALSE, 1),
     Opt("kubernetes", {}, TRUE, "local", <<>>, <<>>, FALSE, 1)}

RunEnvs ==
    {EnvOK, [EnvOK EXCEPT !.buildOk = FALSE], [EnvOK EXCEPT !.pushOk = FALSE],
     [EnvOK EXCEPT !.ctxOk = FALSE]}

RunInputs ==
    (RunModels \X RunOpts \X {EnvOK})
    \cup (RunBuildModels \X RunBuildOpts \X RunEnvs)

InitRun ==
    /\ \E in \in RunInputs :
          /\ loaded = in[1]
          /\ komposeObject = in[1]
          /\ opt = in[2]
          /\ env = in[3]
          /\ cluster \in Clusters(Transform(in[1], in[2], in[3]).allobjects)
    /\ pc = "start"
    /\ objects = <<>>
    /\ ret = NoRet
    /\ first = [status |-> "", objects |-> <<>>]
    /\ idx = 0
    /\ items = {}
    /\ errorList = <<>>
    /\ calls = <<>>
    /\ faults = 0
    /\ img = <<>>
    /\ unsupportedKey = NoKeys
    /\ keyChecks = <<>>
    /\ tag = <<>>

NextRun ==
    \/ DeployBegin
    \/ DeployCreate
    \/ DeploySkip
    \/ UndeployBegin
    \/ UndeployList
    \/ UndeploySkip
    \/ UndeployItem

SpecRun == InitRun /\ [][NextRun]_vars

(***************************************************************************)
(* getImageTag on its own: it is handed an image reference, any string     *)
(* over a few characters up to MaxImageLen long, or one of the references  *)
(* the documentation gives as examples.                                    *)
(***************************************************************************)
ImageChars == {"a", "1", ":", "/"}

RegistryRef ==
    <<"r", "e", "g", "i", "s", "t", "r", "y", ".", "i", "o", ":", "5", "0", "0", "0", "/",
      "t", "e", "a", "m", "/", "a", "p", "p">>
TeamRef == <<"t", "e", "a", "m", "/", "a", "p", "p", ":", "1", ".", "2">>
AppRef == <<"a", "p", "p">>

Images ==
    UNION {[1..n -> ImageChars] : n \in 0..MaxImageLen} \cup {RegistryRef, TeamRef, AppRef}

InitTag ==
    /\ img \in Images
    /\ unsupportedKey = NoKeys
    /\ keyChecks = <<>>
    /\ tag = <<>>
    /\ pc = "start"
    /\ loaded = WEB :> Svc("always", <<>>, <<>>, <<>>, img, <<>>, NoArgs, 0)
    /\ komposeObject = loaded
    /\ opt = Opt("openshift", {}, FALSE, "none", <<>>, <<>>, FALSE, 1)
    /\ env = EnvOK
    /\ cluster = {}
    /\ objects = <<>>
    /\ ret = NoRet
    /\ first = [status |-> "", objects |-> <<>>]
    /\ idx = 0
    /\ items = {}
    /\ errorList = <<>>
    /\ calls = <<>>
    /\ faults = 0

\* a call of getImageTag
GetImageTag ==
    /\ pc = "start"
    /\ tag' = getImageTag(img)
    /\ pc' = "tagged"
    /\ UNCHANGED <<unsupportedKey, keyChecks, img, loaded, komposeObject, opt, env, cluster, objects, ret, first,
                   idx, items, errorList, calls, faults>>

NextTag == GetImageTag

SpecTag == InitTag /\ [][NextTag]_vars

(***************************************************************************)
(* CheckUnsupportedKey on its own: a process that declares some fields     *)
(* unsupported calls it up to MaxChecks times on the models it is handed,  *)
(* loaded from a compose file or from a bundle.                            *)
(***************************************************************************)
\* models of web alone or of web and db, each with or without a build
\* context and a port
KeyModels ==
    {Model(Svc("always", p, <<>>, <<>>, ImgStr, b, NoArgs, 0), db) :
        p \in {<<>>, <<CHOOSE x \in PortSet : x.HostPort = 0>>},
        b \in {<<>>, CtxStr},
        db \in {<<>>,
                <<Svc("always", <<>>, <<>>, <<>>, ImgStr, CtxStr, NoArgs, 0)>>,
                <<Svc("always", <<CHOOSE x \in PortSet : x.HostPort = 0>>, <<>>, <<>>,
                      ImgStr, <<>>, NoArgs, 0)>>}}

\* the maps a transformer may declare: the listed fields, none reported yet
KeyMaps ==
    {[f \in D |-> FALSE] : D \in {{}, {"Build"}, {"Port"}, {"Build", "Port"},
                                  {"Build", "Port", "Volumes"}}}

InitKeys ==
    /\ unsupportedKey \in KeyMaps
    /\ keyChecks = <<>>
    /\ loaded \in KeyModels
    /\ komposeObject = loaded
    /\ pc = "start"
    /\ opt = Opt("openshift", {}, FALSE, "none", <<>>, <<>>, FALSE, 1)
    /\ env = EnvOK
    /\ cluster = {}
    /\ objects = <<>>
    /\ ret = NoRet
    /\ first = [status |-> "", objects |-> <<>>]
    /\ idx = 0
    /\ items = {}
    /\ errorList = <<>>
    /\ calls = <<>>
    /\ faults = 0
    /\ img = <<>>
    /\ tag = <<>>

\* the first call, on the model the process loaded
CheckKeys ==
    /\ pc = "start"
    /\ \E loadedFrom \in {"compose", "bundle"}, order \in Orders(DOMAIN komposeObject) :
          KeysChecked(komposeObject, loadedFrom,
                      CheckUnsupportedKey(order, komposeObject, loadedFrom, unsupportedKey))
    /\ pc' = "checked"
    /\ UNCHANGED <<loaded, komposeObject, opt, env, cluster, objects, ret, first, idx, items,
                   errorList, calls, faults, img, tag>>

\* a later call of the same process, on the same model or on another
CheckKeysAgain ==
    /\ pc = "checked"
    /\ Len(keyChecks) < MaxChecks
    /\ \E ko \in KeyModels :
          /\ komposeObject' = ko
          /\ \E loadedFrom \in {"compose", "bundle"}, order \in Orders(DOMAIN ko) :
                KeysChecked(ko, loadedFrom,
                            CheckUnsupportedKey(order, ko, loadedFrom, unsupportedKey))
    /\ UNCHANGED <<loaded, pc, opt, env, cluster, objects, ret, first, idx, items,
                   errorList, calls, faults, img, tag>>

NextKeys == CheckKeys \/ CheckKeysAgain

SpecKeys == InitKeys /\ [][NextKeys]_vars

(***************************************************************************)
(* Properties of getImageTag.                                              *)
(***************************************************************************)
\* the positions of character c in s
Positions(s, c) == {i \in 1..Len(s) : s[i] = c}

\* the largest element of a non-empty set of numbers
Last(S) == CHOOSE i \in S : \A j \in S : j <= i

\* s from position i on
From(s, i) == SubSeq(s, i, Len(s))

\* the reference without its registry host:port prefix: the first path
\* component, when it holds a colon and a slash follows it
WithoutRegistry(s) ==
    IF /\ Positions(s, "/") # {}
       /\ \E i \in Positions(s, ":") : \A j \in Positions(s, "/") : i < j
    THEN From(s, (CHOOSE j \in Positions(s, "/") : \A k \in Positions(s, "/") : j <= k) + 1)
    ELSE s

\* C19 (as stated): getImageTag returns what follows the last colon of the
\* reference once the registry host:port prefix is stripped, and "latest"
\* when there is no colon left.
C19_TagAfterLastColon ==
    pc = "tagged" =>
        tag = IF Positions(WithoutRegistry(img), ":") = {} THEN Latest
              ELSE From(WithoutRegistry(img),
                        Last(Positions(WithoutRegistry(img), ":")) + 1)

\* the reference after its last slash
LastComponent(s) == IF Positions(s, "/") = {} THEN s ELSE From(s, Last(Positions(s, "/")) + 1)

\* C19 (amended): getImageTag looks at the part of the reference after its
\* last slash (the whole reference when it has none); when that part holds
\* exactly one colon it returns what follows the colon, and otherwise (no
\* colon, or more than one) it returns "latest". The three documented
\* references give "latest", "1.2" and "latest".
C19_TagOfLastComponent ==
    pc = "tagged" =>
        /\ tag = IF Cardinality(Positions(LastComponent(img), ":")) = 1
                 THEN From(LastComponent(img), Last(Positions(LastComponent(img), ":")) + 1)
                 ELSE Latest
        /\ img = RegistryRef => tag = Latest
        /\ img = TeamRef => tag = <<"1", ".", "2">>
        /\ img = AppRef => tag = Latest

C19_Witness ==
    /\ pc = "tagged"
    /\ img = <<"a", ":", "1", ":", "1">>
    /\ tag = Latest

(***************************************************************************)
(* Properties of the graph Transform returns.                              *)
(***************************************************************************)
Returned == pc \in {"converted", "reconverted"} /\ ret.status = "ok"

Names == DOMAIN komposeObject

PodOnlyRestart(n) == komposeObject[n].Restart \in {"no", "on-failure"}

\* the objects of the graph built for service n, in graph order
OfService(n) == SelectSeq(objects, LAMBDA x : x.owner = n)

\* the objects of kinds K built for service n
OfKinds(n, K) == SelectSeq(objects, LAMBDA x : x.owner = n /\ x.kind \in K)

\* the mounts of service n that get a storage claim of their own
OwnClaimMounts(n) ==
    {j \in 1..Len(komposeObject[n].Volumes) : komposeObject[n].Volumes[j].VFrom = <<>>}

C2_OneExposureEach ==
    Returned =>
        \A n \in Names :
            /\ Len(OfKinds(n, {"Service"})) = 1
            /\ (OfKinds(n, {"Service"})[1].ports = <<>>) <=> (komposeObject[n].Port = <<>>)

\* C2 (amended): a service whose restart policy is neither "no" nor
\* "on-failure" has exactly one Service object in the returned graph,
\* headless exactly when it declares no ports; a service with restart "no" or
\* "on-failure" has none, and neither has a service that OpenShift.Transform
\* skipped because the compose file directory could not be resolved.
C2_OneExposureUnlessPod ==
    Returned =>
        \A n \in Names :
            IF PodOnlyRestart(n) \/ n \in ret.skipped
            THEN Len(OfKinds(n, {"Service"})) = 0
            ELSE /\ Len(OfKinds(n, {"Service"})) = 1
                 /\ OfKinds(n, {"Service"})[1].name = n
                 /\ (OfKinds(n, {"Service"})[1].ports = <<>>)
                        <=> (komposeObject[n].Port = <<>>)

C2_Witness ==
    /\ Returned
    /\ \E n, m \in Names :
          /\ PodOnlyRestart(n) /\ Len(OfKinds(n, {"Service"})) = 0
          /\ ~PodOnlyRestart(m) /\ komposeObject[m].Port = <<>>
          /\ Len(OfKinds(m, {"Service"})) = 1

DigitVal(c) == Ord(c) - 48

\* the number a decimal numeral denotes
RECURSIVE DecVal(_)
DecVal(s) ==
    IF s = <<>> THEN 0 ELSE 10 * DecVal(SubSeq(s, 1, Len(s) - 1)) + DigitVal(s[Len(s)])

IsDecimal(s) ==
    /\ s # <<>>
    /\ \A i \in 1..Len(s) : DigitVal(s[i]) \in 0..9
    /\ Len(s) > 1 => s[1] # "0"

\* C3: a Service object has one port entry per declared port of its service,
\* in declaration order (none when no port is declared); entry i has the i-th
\* host port (the container port when the host port is 0) as port and, in
\* decimal, as name, the i-th container port as target port, and a protocol
\* that is omitted exactly when the declared one is TCP.
C3_ServicePorts ==
    Returned =>
        \A i \in 1..Len(objects) :
            objects[i].kind = "Service" =>
                LET declared == komposeObject[objects[i].owner].Port
                    ps == objects[i].ports
                IN  /\ Len(ps) = Len(declared)
                    /\ \A k \in 1..Len(declared) :
                          LET d == declared[k]
                              hp == IF d.HostPort = 0 THEN d.ContainerPort ELSE d.HostPort
                          IN  /\ ps[k].Port = hp
                              /\ IsDecimal(ps[k].Name)
                              /\ DecVal(ps[k].Name) = hp
                              /\ ps[k].TargetPort = d.ContainerPort
                              /\ ps[k].Protocol = (IF d.Protocol = "TCP" THEN ""
                                                   ELSE d.Protocol)

C3_Witness ==
    /\ Returned
    /\ \E i \in 1..Len(objects) :
          /\ objects[i].kind = "Service"
          /\ Len(objects[i].ports) = 2
          /\ objects[i].ports[1] = objects[i].ports[2]
          /\ objects[i].ports[1].Protocol = "UDP"
          /\ objects[i].ports[1].Port # objects[i].ports[1].TargetPort

RouteKind == IF opt.Provider = "openshift" THEN "Route" ELSE "Ingress"

ExpectedHost(n) ==
    IF komposeObject[n].ExposeService = TRUEstr THEN <<>>
    ELSE komposeObject[n].ExposeService

\* C4 (as stated): every service with a non-empty expose value has exactly one
\* route (OpenShift) or ingress (Kubernetes) object in the returned graph,
\* whose port is the first port of the service's Service object and whose
\* host is unset for "true" and the value otherwise.
C4_OneRouteEach ==
    Returned =>
        \A n \in Names :
            komposeObject[n].ExposeService # <<>> =>
                /\ Len(OfKinds(n, {"Route", "Ingress"})) = 1
                /\ OfKinds(n, {"Route", "Ingress"})[1].kind = RouteKind
                /\ OfKinds(n, {"Route", "Ingress"})[1].host = ExpectedHost(n)

\* the services Transform builds a route or ingress for
GetsRoute(n) ==
    /\ komposeObject[n].ExposeService # <<>>
    /\ ~PodOnlyRestart(n)
    /\ komposeObject[n].Port # <<>>
    /\ n \notin ret.skipped

\* C4 (amended): a service with a non-empty expose value, a restart policy
\* other than "no" and "on-failure" and at least one declared port has exactly
\* one route (OpenShift) or ingress (Kubernetes) object in the returned graph,
\* whose port is the first port of the service's Service object and whose
\* host is unset for "true" and the value otherwise; any other service (no
\* expose value, no declared port, restart "no" or "on-failure", or skipped
\* by OpenShift.Transform) has none.
C4_OneRouteWhenPorts ==
    Returned =>
        \A n \in Names :
            IF GetsRoute(n)
            THEN /\ Len(OfKinds(n, {"Route", "Ingress"})) = 1
                 /\ Len(OfKinds(n, {"Service"})) = 1
                 /\ LET r == OfKinds(n, {"Route", "Ingress"})[1]
                        svc == OfKinds(n, {"Service"})[1]
                    IN  /\ r.kind = RouteKind
                        /\ r.name = n
                        /\ r.port = svc.ports[1].Port
                        /\ r.host = ExpectedHost(n)
            ELSE Len(OfKinds(n, {"Route", "Ingress"})) = 0

C4_Witness ==
    /\ Returned
    /\ \E n \in Names :
          /\ GetsRoute(n)
          /\ komposeObject[n].ExposeService = TRUEstr
          /\ Len(komposeObject[n].Port) = 2
          /\ komposeObject[n].Port[1] # komposeObject[n].Port[2]
          /\ OfKinds(n, {"Route"})  # <<>>

IsExposure(x) == x.kind \in {"Service", "Route", "Ingress"}
IsOther(x) == ~IsExposure(x)

C6_Deterministic ==
    /\ pc = "reconverted" =>
          /\ ret.status = first.status
          /\ objects = first.objects
    /\ Returned =>
          \A i, j \in 1..Len(ret.emitted) :
              i < j => ~StrLess(ret.emitted[j].owner, ret.emitted[i].owner)

C6_Witness ==
    /\ pc = "reconverted"
    /\ ret.status = "ok"
    /\ Cardinality(Names) = 2
    /\ \E i \in 1..Len(objects) :
          /\ objects[i].kind = "BuildConfig"
          /\ \E k \in 1..Len(objects[i].env) : objects[i].env[k].Value = env.environ[ArgK]

\* C7 (as stated): every object of the returned graph carries exactly one
\* label, the identifying key mapped to the name of the service it was
\* produced for.
C7_LabelIsServiceName ==
    Returned =>
        \A i \in 1..Len(objects) : objects[i].labels = {<<Selector, objects[i].owner>>}

\* the volume names ConfigVolumes resolves for the mounts of service n
VolumeNames(n) ==
    {LET v == komposeObject[n].Volumes[j]
     IN  IF v.VolumeName = <<>> THEN v.PVCName ELSE v.VolumeName :
        j \in 1..Len(komposeObject[n].Volumes)}

\* C7 (amended): every object of the returned graph carries exactly one
\* label, the identifying key mapped to the object's own name; that name is
\* the name of the service the object was produced for, except for a storage
\* claim, whose name and label value are the volume name of its mount.
C7_LabelIsObjectName ==
    Returned =>
        \A i \in 1..Len(objects) :
            /\ objects[i].labels = {<<Selector, objects[i].name>>}
            /\ IF objects[i].kind = "PersistentVolumeClaim"
               THEN objects[i].name \in VolumeNames(objects[i].owner)
               ELSE objects[i].name = objects[i].owner

C7_Witness ==
    /\ Returned
    /\ \E i \in 1..Len(objects) :
          /\ objects[i].kind = "PersistentVolumeClaim"
          /\ objects[i].name # objects[i].owner
          /\ objects[i].labels = {<<Selector, objects[i].name>>}

(***************************************************************************)
(* Properties of Undeploy. The calls of a behaviour hold, in order, the    *)
(* List, Stop and Delete calls Undeploy has made; Deploy makes none of     *)
(* these. The reapers of the kinds Undeploy stops are always obtained.     *)
(***************************************************************************)
IsList(c) == c.op = "list"

IsRemoval(c) == c.op \in {"stop", "delete"}

\* the items of a List result whose label set is exactly the expected one
ExactItems(c) == {l \in c.found : l.labels = {<<Selector, c.name>>}}

\* the position of the last List call at or before position i (0 if none)
LastList(i) ==
    IF \E j \in 1..i : IsList(calls[j])
    THEN CHOOSE j \in 1..i : IsList(calls[j]) /\ \A k \in (j + 1)..i : ~IsList(calls[k])
    ELSE 0

\* the removals made on behalf of the List call at position j
RemovalsOf(j) == {i \in 1..Len(calls) : IsRemoval(calls[i]) /\ LastList(i) = j}

\* C8: every Stop or Delete call Undeploy makes is for the kind and name of
\* the List call before it, that List call succeeded, and it returned at
\* least as many items labelled exactly {identifying key: graph object's
\* name} as removals follow it; so a List result whose items all carry one
\* more label is followed by no removal.
C8_DeleteOnlyExactLabels ==
    \A i \in 1..Len(calls) :
        IsRemoval(calls[i]) =>
            /\ LastList(i) # 0
            /\ LET c == calls[LastList(i)]
               IN  /\ c.ok
                   /\ c.kind = calls[i].kind
                   /\ c.name = calls[i].name
                   /\ Cardinality(RemovalsOf(LastList(i))) <= Cardinality(ExactItems(c))

C8_Witness ==
    /\ pc = "undeployed"
    /\ \E j \in 1..(Len(calls) - 1) :
          /\ IsList(calls[j])
          /\ ExactItems(calls[j]) # {}
          /\ calls[j].found \ ExactItems(calls[j]) # {}
          /\ IsRemoval(calls[j + 1])
          /\ calls[j + 1].ok
    /\ \E j \in 1..Len(calls) :
          /\ IsList(calls[j])
          /\ calls[j].found # {}
          /\ ExactItems(calls[j]) = {}

\* Undeploy has returned after its loop over the graph: Transform returned a
\* graph and the clients were obtained
LoopDone ==
    /\ pc = "undeployed"
    /\ ret.status = "ok"
    /\ errorList = <<>> \/ errorList[1].op # "client"

\* the List, Stop and Delete calls that failed, in order, as errors
FailedCalls ==
    LET failed == SelectSeq(calls, LAMBDA c : (IsList(c) \/ IsRemoval(c)) /\ ~c.ok)
    IN  [i \in 1..Len(failed) |->
            [op |-> failed[i].op, kind |-> failed[i].kind, name |-> failed[i].name]]

\* the kind and name of each element of a sequence of objects or calls
KindsAndNames(q) == [i \in 1..Len(q) |-> <<q[i].kind, q[i].name>>]

NothingListed == \A i \in 1..Len(calls) : IsList(calls[i]) => calls[i].ok /\ calls[i].found = {}

\* C10: when Undeploy returns after its loop over the graph and every List
\* call succeeded and returned no item, no Stop or Delete call has been made
\* and the error list is empty.
C10_NoMatchNoError ==
    (LoopDone /\ NothingListed) =>
        /\ \A i \in 1..Len(calls) : ~IsRemoval(calls[i])
        /\ errorList = <<>>

C10_Witness ==
    /\ LoopDone
    /\ NothingListed
    /\ Cardinality({i \in 1..Len(calls) : IsList(calls[i])}) >= 3
    /\ errorList = <<>>
    /\ \A i \in 1..Len(calls) : ~IsRemoval(calls[i])

(***************************************************************************)
(* Properties of Deploy.                                                   *)
(***************************************************************************)
IsCreate(c) == c.op = "create"

\* the positions of the Create calls that failed
FailedCreates == {i \in 1..Len(calls) : IsCreate(calls[i]) /\ ~calls[i].ok}

\* C11: a Create call that failed is the last Create call of the run; when
\* Deploy has returned on it, the error returned is that call's, no List,
\* Stop or Delete call has been made, and every object created by an earlier
\* Create call of the run is still in the cluster.
C11_FirstCreateErrorEnds ==
    /\ \A i \in FailedCreates : \A j \in (i + 1)..Len(calls) : ~IsCreate(calls[j])
    /\ (pc = "deploy failed" /\ FailedCreates # {}) =>
          /\ \A i \in FailedCreates :
                errorList = <<[op |-> "create", kind |-> calls[i].kind,
                               name |-> calls[i].name]>>
          /\ \A i \in 1..Len(calls) :
                /\ ~IsList(calls[i]) /\ ~IsRemoval(calls[i])
                /\ (IsCreate(calls[i]) /\ calls[i].ok) =>
                      [kind |-> calls[i].kind, name |-> calls[i].name,
                       labels |-> {<<Selector, calls[i].name>>}] \in cluster

C11_Witness ==
    /\ pc = "deploy failed"
    /\ FailedCreates # {}
    /\ idx < Len(objects)
    /\ \E i \in 1..Len(calls) : IsCreate(calls[i]) /\ calls[i].ok

\* C12: when Deploy has returned success, the Create calls it made are one
\* for every object of the transformed graph, whatever its kind, in graph
\* order.
C12_CreateEveryObject ==
    pc = "deployed" =>
        KindsAndNames(SelectSeq(calls, IsCreate)) = KindsAndNames(objects)

\* Undeploy has returned after its loop, in a behaviour without a failure of
\* the control plane's own, after a Deploy that made a Create call for every
\* graph object its type switch has a case for, each of which succeeded (so
\* the cluster held none of them before)
RoundTripDone ==
    /\ LoopDone
    /\ faults = 0
    /\ \E i \in 1..Len(calls) : IsCreate(calls[i])
    /\ \A i \in 1..Len(calls) : IsCreate(calls[i]) => calls[i].ok
    /\ KindsAndNames(SelectSeq(calls, IsCreate))
          = KindsAndNames(SelectSeq(objects, LAMBDA t : t.kind \in Cases))

\* no object Deploy created is left in the cluster
NothingLeft ==
    \A i \in 1..Len(calls) :
        IsCreate(calls[i]) => ~Exists(cluster, calls[i].kind, calls[i].name)

\* C13: after a Deploy in which every Create succeeded, on a cluster that
\* held none of the graph's objects, an Undeploy with the same model and
\* options on a fault-free cluster returns an empty error list and leaves no
\* object the Deploy created.
C13_RoundTrip ==
    RoundTripDone => (errorList = <<>> /\ NothingLeft)

\* the round trip on clusters in which the only objects labelled exactly as a
\* graph object are the ones Deploy created
C13_RoundTripNoStranger ==
    (RoundTripDone
     /\ \A i \in 1..Len(calls) :
           IsList(calls[i]) => \A l \in ExactItems(calls[i]) : l.name = calls[i].name)
        => (errorList = <<>> /\ NothingLeft)

\* whatever else the cluster holds, the objects Deploy created are removed
C13_CreatedAreRemoved ==
    RoundTripDone => NothingLeft

(***************************************************************************)
(* Properties of Transform: controllers, replicas, builds.                 *)
(***************************************************************************)
\* Transform has returned (the process did not exit in it)
TransformReturned == pc \in {"converted", "reconverted"}

\* the options force a controller kind
ForcesController ==
    \/ opt.IsDeploymentFlag
    \/ opt.IsDaemonSetFlag
    \/ opt.IsReplicationControllerFlag
    \/ opt.IsDeploymentConfigFlag

\* C14: whenever some service has restart "no" or "on-failure" and the
\* options force a controller kind (deployment, daemon set, replication
\* controller or deployment config), on either platform, Transform returns
\* an error and no graph.
C14_ForcedControllerIsError ==
    (TransformReturned /\ ForcesController /\ \E n \in Names : PodOnlyRestart(n)) =>
        (ret.status = "error" /\ objects = <<>>)

\* what the two loops do test: the baseline platform the deployment, daemon
\* set and replication controller flags, the extended platform the
\* deployment config flag alone
C14_ForcedControllerTested ==
    (TransformReturned /\ \E n \in Names : PodOnlyRestart(n)
     /\ IF opt.Provider = "openshift"
        THEN opt.IsDeploymentConfigFlag
        ELSE opt.IsDeploymentFlag \/ opt.IsDaemonSetFlag \/ opt.IsReplicationControllerFlag) =>
        (ret.status = "error" /\ objects = <<>>)

\* the kinds of the controller objects of service n, in graph order
ControllersOf(n) ==
    LET c == OfKinds(n, ControllerKinds) IN [i \in 1..Len(c) |-> c[i].kind]

\* the controller kinds the emission toggles ask for, in the order the loops
\* build them; the deployment config toggle counts on the extended platform
ToggledKinds ==
    (IF opt.CreateD THEN <<"Deployment">> ELSE <<>>)
    \o (IF opt.CreateDS THEN <<"DaemonSet">> ELSE <<>>)
    \o (IF opt.CreateRC THEN <<"ReplicationController">> ELSE <<>>)
    \o (IF opt.Provider = "openshift" /\ opt.CreateDeploymentConfig
        THEN <<"DeploymentConfig">> ELSE <<>>)

\* C15 (as stated): a service whose restart policy is neither "no" nor
\* "on-failure" has controller objects of at most one kind in the returned
\* graph, for every combination of emission toggles.
C15_OneControllerKind ==
    Returned =>
        \A n \in Names :
            ~PodOnlyRestart(n) =>
                \A i, j \in 1..Len(ControllersOf(n)) : ControllersOf(n)[i] = ControllersOf(n)[j]

\* C15 (amended): a service whose restart policy is neither "no" nor
\* "on-failure", and which the extended platform's loop did not skip, has in
\* the returned graph exactly one controller object for every emission toggle
\* that is on, in the order deployment, daemon set, replication controller,
\* deployment config: at most one object of each kind, and as many kinds as
\* toggles are on.
C15_OneControllerPerToggle ==
    Returned =>
        \A n \in Names :
            ~PodOnlyRestart(n) =>
                ControllersOf(n) = IF n \in ret.skipped THEN <<>> ELSE ToggledKinds

C15_Witness ==
    /\ Returned
    /\ \E n \in Names :
          /\ ~PodOnlyRestart(n)
          /\ ControllersOf(n) = <<"Deployment", "DaemonSet">>

ReplicaKinds == {"Deployment", "ReplicationController", "DeploymentConfig"}

\* C16: every deployment, replication controller and deployment config of the
\* returned graph has the replica count of its service when that count is
\* not zero and the run does not force the default, and the global default
\* replica count otherwise.
C16_Replicas ==
    Returned =>
        \A i \in 1..Len(objects) :
            objects[i].kind \in ReplicaKinds =>
                objects[i].replicas =
                    IF komposeObject[objects[i].owner].Replicas # 0 /\ ~opt.IsReplicaSetFlag
                    THEN komposeObject[objects[i].owner].Replicas
                    ELSE opt.Replicas

C16_Witness ==
    /\ Returned
    /\ \E i, j \in 1..Len(objects) :
          /\ objects[i].kind = "DeploymentConfig"
          /\ objects[j].kind = "ReplicationController"
          /\ komposeObject[objects[i].owner].Replicas = 3
          /\ opt.IsReplicaSetFlag
          /\ objects[i].replicas = 2
          /\ objects[j].replicas = 2

\* Transform has run and either returned or ended the process
TransformDone == pc \in {"converted", "reconverted", "exited"}

\* the services that declare a build context and no image name
BuildsUnnamed == {n \in Names : komposeObject[n].Build # <<>> /\ komposeObject[n].Image = <<>>}

IsBuildOrPush(c) == c.op \in {"build", "push"}

BuiltLocally ==
    IF opt.Build = "local" THEN {n \in DOMAIN loaded : loaded[n].Build # <<>>} ELSE {}

\* C18: a push is invoked only right after a successful build of the same
\* service, and a successful build is followed by the push; a graph that
\* holds objects of a locally built service is returned only after both
\* succeeded for it; after a failed build or push no graph is returned and
\* no call is made on the control plane (the only later calls are the builds
\* and pushes of a later run).
C18_BuildThenPush ==
    /\ \A i \in 1..Len(calls) :
          /\ calls[i].op = "push" =>
                /\ i > 1
                /\ calls[i - 1].op = "build"
                /\ calls[i - 1].ok
                /\ calls[i - 1].name = calls[i].name
          /\ (calls[i].op = "build" /\ calls[i].ok) =>
                /\ i < Len(calls)
                /\ calls[i + 1].op = "push"
                /\ calls[i + 1].name = calls[i].name
          /\ (IsBuildOrPush(calls[i]) /\ ~calls[i].ok) =>
                /\ \A j \in (i + 1)..Len(calls) : IsBuildOrPush(calls[j])
                /\ objects = <<>>
                /\ ret.status \in {"error", "exit"}
    /\ \A k \in 1..Len(objects) :
          objects[k].owner \in BuiltLocally =>
              \E i \in 1..(Len(calls) - 1) :
                  /\ calls[i].op = "build" /\ calls[i].ok
                  /\ calls[i].name = objects[k].owner
                  /\ calls[i + 1].op = "push" /\ calls[i + 1].ok

C18_Witness ==
    /\ pc = "undeployed"
    /\ Cardinality(DOMAIN loaded) = 2
    /\ Len(calls) = 4
    /\ calls[1].op = "build" /\ calls[1].ok
    /\ calls[2].op = "push" /\ ~calls[2].ok
    /\ calls[3].op = "build" /\ calls[3].ok
    /\ calls[4].op = "push" /\ ~calls[4].ok
    /\ Len(errorList) = 1
    /\ errorList[1].op = "Transform"

\* a service for which the extended platform's loop builds a build object
NeedsBuildConfig(n) ==
    /\ opt.Provider = "openshift"
    /\ opt.Build = "build-config"
    /\ komposeObject[n].Build # <<>>
    /\ ~PodOnlyRestart(n)

\* something a build object needs cannot be resolved: the compose-file
\* directory, the git branch or the remote URL (when no override is given),
\* or the build context
ResolutionFails ==
    \/ ~env.cwdOk
    \/ ~env.ctxOk
    \/ ~env.branchOk /\ opt.BuildBranch = <<>>
    \/ ~env.remoteOk /\ opt.BuildRepo = <<>>

\* C20: when what a build object needs cannot be resolved, Transform returns
\* an error; an error comes with no graph; and a returned graph holds objects
\* of every service of the model.
C20_NoPartialGraph ==
    TransformReturned =>
        /\ ((\E n \in Names : NeedsBuildConfig(n)) /\ ResolutionFails) => ret.status = "error"
        /\ ret.status = "error" => objects = <<>>
        /\ ret.status = "ok" => \A n \in Names : OfService(n) # <<>>

\* the same, for the runs in which the compose-file directory is resolved
C20_NoPartialGraphWithDirectory ==
    env.cwdOk => C20_NoPartialGraph

\* a returned graph lacks the objects of exactly the services the loop left
\* with `continue`
C20_MissingAreSkipped ==
    Returned => \A n \in Names : (OfService(n) = <<>>) <=> (n \in ret.skipped)

(***************************************************************************)
(* Properties of Deploy and Undeploy on the extended platform and of the   *)
(* calls they make.                                                        *)
(***************************************************************************)
\* the positions of the Create calls for an object of kind and name
CreatesOf(kind, name) ==
    {i \in 1..Len(calls) : IsCreate(calls[i]) /\ calls[i].kind = kind /\ calls[i].name = name}

\* the positions in the graph of the objects of kind built for service n
GraphPositions(kind, n) ==
    {i \in 1..Len(objects) : objects[i].kind = kind /\ objects[i].owner = n}

\* C21: in the graph of the extended platform the deployment config of a
\* service comes before its image stream, and the image stream before its
\* build object; Deploy makes the Create call for a build object only after
\* a successful Create call for the image stream of the same service, and
\* that one only after a successful Create call for its deployment config.
C21_ImageStreamBeforeBuild ==
    opt.Provider = "openshift" =>
        /\ \A n \in DOMAIN loaded :
              /\ \A i \in GraphPositions("ImageStream", n) :
                    \E d \in GraphPositions("DeploymentConfig", n) : d < i
              /\ \A b \in GraphPositions("BuildConfig", n) :
                    \E i \in GraphPositions("ImageStream", n) : i < b
        /\ \A n \in DOMAIN loaded :
              /\ \A b \in CreatesOf("BuildConfig", n) :
                    \E i \in CreatesOf("ImageStream", n) : i < b /\ calls[i].ok
              /\ \A i \in CreatesOf("ImageStream", n) :
                    \E d \in CreatesOf("DeploymentConfig", n) : d < i /\ calls[d].ok

C21_Witness ==
    /\ pc = "deployed"
    /\ Cardinality(DOMAIN loaded) = 2
    /\ \A n \in DOMAIN loaded :
          \E d, i, b \in 1..Len(calls) :
              /\ d < i /\ i < b
              /\ d \in CreatesOf("DeploymentConfig", n) /\ calls[d].ok
              /\ i \in CreatesOf("ImageStream", n) /\ calls[i].ok
              /\ b \in CreatesOf("BuildConfig", n) /\ calls[b].ok

\* the names of the items of a List result that are labelled exactly as
\* expected
ExactNames(c) == {l.name : l \in ExactItems(c)}

\* C22: every Stop or Delete call Undeploy makes targets the name of an item
\* of the preceding List result whose label set is exactly the expected one;
\* and when Undeploy has returned without a failed call, the names removed
\* after a List call are exactly the names of its exactly-labelled items.
C22_DeleteListedObject ==
    /\ \A i \in 1..Len(calls) :
          IsRemoval(calls[i]) =>
              (LastList(i) # 0 /\ calls[i].name \in ExactNames(calls[LastList(i)]))
    /\ (LoopDone /\ errorList = <<>>) =>
          \A j \in 1..Len(calls) :
              IsList(calls[j]) =>
                  {calls[i].name : i \in RemovalsOf(j)} = ExactNames(calls[j])

\* the same, for the List results whose exactly-labelled items all have the
\* name of the graph object
C22_DeleteListedNamesake ==
    /\ \A i \in 1..Len(calls) :
          (IsRemoval(calls[i]) /\ LastList(i) # 0
           /\ ExactNames(calls[LastList(i)]) \subseteq {calls[LastList(i)].name}) =>
              calls[i].name \in ExactNames(calls[LastList(i)])
    /\ (LoopDone /\ errorList = <<>>) =>
          \A j \in 1..Len(calls) :
              (IsList(calls[j]) /\ ExactNames(calls[j]) \subseteq {calls[j].name}) =>
                  {calls[i].name : i \in RemovalsOf(j)} = ExactNames(calls[j])

\* what the removals do target: the name of the graph object the List call
\* was made for, once for every exactly-labelled item until one fails
C22_DeleteGraphObjectName ==
    \A i \in 1..Len(calls) :
        IsRemoval(calls[i]) =>
            /\ LastList(i) # 0
            /\ calls[i].name = calls[LastList(i)].name
            /\ \E k \in 1..Len(objects) :
                  objects[k].kind = calls[i].kind /\ objects[k].name = calls[i].name

\* C23: when Undeploy has returned after its loop, it has made exactly one
\* List call for every object of the transformed graph, whatever its kind,
\* in graph order.
C23_OneListPerObject ==
    LoopDone => KindsAndNames(SelectSeq(calls, IsList)) = KindsAndNames(objects)

\* the single pass over the objects the type switch has a case for: one List
\* call for each, in graph order, and a failed List, Stop or Delete call is
\* followed by nothing but the List call of the next object
C23_OneListPerCase ==
    /\ LoopDone =>
          KindsAndNames(SelectSeq(calls, IsList))
              = KindsAndNames(SelectSeq(objects, LAMBDA t : t.kind \in Cases))
    /\ \A i \in 1..(Len(calls) - 1) :
          ((IsList(calls[i]) \/ IsRemoval(calls[i])) /\ ~calls[i].ok) => IsList(calls[i + 1])
    /\ Cardinality({i \in 1..Len(calls) : IsList(calls[i])}) <= Len(objects)

\* Undeploy's loop cannot run for ever: every step of it moves on to the next
\* graph object, or goes from the List call to the items of its result, or
\* takes one item off the items still to visit; idx never passes the end of
\* the graph by more than one
UndeployAdvances ==
    pc \in {"undeploy", "undeploy items"} =>
        /\ idx' <= Len(objects) + 1
        /\ \/ idx' = idx + 1
           \/ idx' = idx /\ pc = "undeploy" /\ pc' = "undeploy items"
           \/ idx' = idx /\ items' \subseteq items /\ items' # items

C23_Progress == [][UndeployAdvances]_vars

\* and in its loop Undeploy always has a step to take, until it returns
C23_NeverStuck ==
    pc \in {"undeploy", "undeploy items"} => ENABLED NextRun

(***************************************************************************)
(* Properties of ConfigVolumes, seen in the graph: the claims appended to  *)
(* a service's objects and the volumes given to its pod template.          *)
(***************************************************************************)
\* the mounts of service n
Mounts(n) == komposeObject[n].Volumes

\* the name a mount's volume goes by outside empty-volume mode
ResolvedName(v) == IF v.VolumeName # <<>> THEN v.VolumeName ELSE v.PVCName

\* the names of the claims expected for service n: one per mount that does
\* not reference another service's claim, in mount order
RECURSIVE ClaimNames(_)
ClaimNames(mounts) ==
    IF mounts = <<>> THEN <<>>
    ELSE (IF Head(mounts).VFrom = <<>> THEN <<ResolvedName(Head(mounts))>> ELSE <<>>)
         \o ClaimNames(Tail(mounts))

\* the names of the storage claims of service n, in graph order
ClaimsOf(n) ==
    LET c == OfKinds(n, {"PersistentVolumeClaim"}) IN [i \in 1..Len(c) |-> c[i].name]

\* the objects of service n that carry a pod template
TemplatesOf(n) == OfKinds(n, ControllerKinds \cup {"Pod"})

\* C24: for every service of a returned graph that the loop did not skip:
\* outside empty-volume mode its storage claims are one per mount that does
\* not reference another service's claim, in mount order, each named by the
\* mount's resolved volume name (so none for a mount that references one),
\* and every mount's volume has a claim source of that name; in empty-volume
\* mode it has no storage claim and every volume has an empty-directory
\* source.
C24_ClaimPerOwnMount ==
    Returned =>
        \A n \in Names \ ret.skipped :
            /\ ClaimsOf(n) = IF opt.EmptyVols THEN <<>> ELSE ClaimNames(Mounts(n))
            /\ \A i \in 1..Len(TemplatesOf(n)) :
                  LET vs == TemplatesOf(n)[i].volumes
                  IN  /\ Len(vs) = Len(Mounts(n))
                      /\ \A j \in 1..Len(vs) :
                            IF opt.EmptyVols
                            THEN vs[j].Source = "EmptyDir"
                            ELSE /\ vs[j].Source = "PersistentVolumeClaim"
                                 /\ vs[j].Name = ResolvedName(Mounts(n)[j])

C24_Witness ==
    /\ Returned
    /\ ~opt.EmptyVols
    /\ \E n, m \in Names :
          /\ Len(Mounts(n)) = 2
          /\ ClaimsOf(n) = <<ClaimName(n, 0), NamedVol>>
          /\ Mounts(m) # <<>>
          /\ TemplatesOf(m) # <<>>

C24_WitnessEmptyVolumes ==
    /\ Returned
    /\ opt.EmptyVols
    /\ \E n \in Names :
          /\ Len(Mounts(n)) = 2
          /\ ClaimsOf(n) = <<>>
          /\ TemplatesOf(n) # <<>>
          /\ TemplatesOf(n)[1].volumes[1].Source = "EmptyDir"

C24_WitnessReferenced ==
    /\ Returned
    /\ ~opt.EmptyVols
    /\ \E n \in Names :
          /\ Len(Mounts(n)) = 1
          /\ Mounts(n)[1].VFrom # <<>>
          /\ ClaimsOf(n) = <<>>
          /\ TemplatesOf(n)[1].volumes[1].Source = "PersistentVolumeClaim"

(***************************************************************************)
(* Properties of CheckUnsupportedKey.                                      *)
(***************************************************************************)
\* service holds a value for field f: a non-empty string, list or map, a
\* number other than 0
HasValue(service, f) ==
    CASE f = "Replicas" -> service[f] # 0
      [] f = "Restart" -> service[f] # ""
      [] f = "BuildArgs" -> DOMAIN service[f] # {}
      [] OTHER -> Len(service[f]) > 0

\* some service of the model given to call k holds a value for field f
UsedIn(k, f) == \E n \in DOMAIN keyChecks[k].ko : HasValue(keyChecks[k].ko[n], f)

\* the first call in which field f is used (0 when it is used in none)
FirstUse(f) ==
    IF \E k \in 1..Len(keyChecks) : UsedIn(k, f)
    THEN CHOOSE k \in 1..Len(keyChecks) : UsedIn(k, f) /\ \A j \in 1..(k - 1) : ~UsedIn(j, f)
    ELSE 0

\* the number of times key appears among the keys call k returned
TimesFound(k, key) ==
    Cardinality({i \in 1..Len(keyChecks[k].keysFound) : keyChecks[k].keysFound[i] = key})

AllTags == {Tag(l, Fields[i]) : l \in {"compose", "bundle"}, i \in 1..Len(Fields)}

\* C25: the keys a call of CheckUnsupportedKey returns are, each once, the
\* tags of the declared fields whose first use by some service is in that
\* call (whether one service uses the field or several, and whatever order
\* the services are visited in): so a field is reported in the first call in
\* which it is used and in no other, and the map records as reported exactly
\* the fields used so far.
C25_ReportedOnce ==
    /\ \A k \in 1..Len(keyChecks) :
          /\ \A key \in AllTags :
                TimesFound(k, key) =
                    Cardinality({f \in DOMAIN unsupportedKey :
                                    FirstUse(f) = k /\ Tag(keyChecks[k].loadedFrom, f) = key})
          /\ \A i \in 1..Len(keyChecks[k].keysFound) : keyChecks[k].keysFound[i] \in AllTags
    /\ \A f \in DOMAIN unsupportedKey : unsupportedKey[f] <=> FirstUse(f) # 0

C25_Witness ==
    /\ Len(keyChecks) = 2
    /\ DOMAIN unsupportedKey = {"Build", "Port", "Volumes"}
    /\ Cardinality(DOMAIN keyChecks[1].ko) = 2
    /\ \A n \in DOMAIN keyChecks[1].ko :
          HasValue(keyChecks[1].ko[n], "Build") /\ ~HasValue(keyChecks[1].ko[n], "Port")
    /\ keyChecks[1].keysFound = <<"build">>
    /\ \A n \in DOMAIN keyChecks[2].ko :
          HasValue(keyChecks[2].ko[n], "Build") \/ HasValue(keyChecks[2].ko[n], "Port")
    /\ UsedIn(2, "Build")
    /\ keyChecks[2].keysFound = <<"ports">>
    /\ ~unsupportedKey["Volumes"]

(***************************************************************************)
(* Properties of Transform: what it leaves of the model it was given.      *)
(***************************************************************************)
\* C26: after Transform (whether it returned a graph, returned an error or
\* ended the process) the caller's service model is what it was before the
\* call: every field of every service, build-argument values included.
C26_ModelUnchanged ==
    TransformDone => komposeObject = loaded

\* what does hold: no field other than the build arguments changes, no build
\* argument is added or removed, and a build-argument value changes only
\* when it held the inherit-from-environment sentinel, the extended platform
\* reached initBuildConfig for its service, and then to the environment's
\* value for its name
C26_OnlyInheritedArgsChange ==
    TransformDone =>
        /\ DOMAIN komposeObject = DOMAIN loaded
        /\ \A n \in DOMAIN loaded :
              /\ [komposeObject[n] EXCEPT !.BuildArgs = loaded[n].BuildArgs] = loaded[n]
              /\ DOMAIN komposeObject[n].BuildArgs = DOMAIN loaded[n].BuildArgs
              /\ \A a \in DOMAIN loaded[n].BuildArgs :
                    \/ komposeObject[n].BuildArgs[a] = loaded[n].BuildArgs[a]
                    \/ /\ loaded[n].BuildArgs[a] = Sentinel
                       /\ komposeObject[n].BuildArgs[a] = Getenv(env, a)
                       /\ opt.Provider = "openshift"
                       /\ opt.Build = "build-config"
                       /\ loaded[n].Build # <<>>

\* on the baseline platform the model is left as it was
C26_ModelUnchangedOnBaseline ==
    (TransformDone /\ opt.Provider = "kubernetes") => komposeObject = loaded

(***************************************************************************)
(* Properties of Deploy and Undeploy when Transform fails.                 *)
(***************************************************************************)
IsControlPlane(c) == IsCreate(c) \/ IsList(c) \/ IsRemoval(c)

\* C27: when the Transform of a Deploy or an Undeploy has returned an error,
\* the command has returned without entering its loop: Deploy with that
\* error, wrapped; Undeploy with an error list that holds that error and
\* nothing else; and no Create, List, Stop or Delete call has been made.
C27_TransformErrorEnds ==
    ret.status = "error" =>
        /\ pc \in {"deploy failed", "undeployed"}
        /\ ret.err # ""
        /\ pc = "deploy failed" =>
              errorList = <<[op |-> "Transform", kind |-> "", name |-> <<>>,
                             msg |-> ret.err, wrapped |-> "Transform failed"]>>
        /\ pc = "undeployed" =>
              errorList = <<[op |-> "Transform", kind |-> "", name |-> <<>>,
                             msg |-> ret.err, wrapped |-> ""]>>
        /\ \A i \in 1..Len(calls) : ~IsControlPlane(calls[i])

C27_Witness ==
    /\ pc = "undeployed"
    /\ ret.status = "error"
    /\ ret.err = "Unable to build Docker image"
    /\ Len(errorList) = 1
    /\ errorList[1].wrapped = ""
    /\ Len(keyChecks) = 0
    /\ \E i \in 1..Len(calls) : calls[i].op = "build" /\ ~calls[i].ok

C27_WitnessDeploy ==
    /\ pc = "deploy failed"
    /\ ret.status = "error"
    /\ ret.err = "initBuildConfig failed"
    /\ errorList[1].wrapped = "Transform failed"

(***************************************************************************)
(* Properties of Undeploy: what it may remove.                             *)
(***************************************************************************)
\* the graph holds an object of this kind and name
InGraph(kind, name) ==
    \E k \in 1..Len(objects) : objects[k].kind = kind /\ objects[k].name = name

\* a step takes out of the cluster only objects whose kind and name are those
\* of an object of the graph
RemovesGraphObjectsOnly ==
    \A l \in cluster \ cluster' : InGraph(l.kind, l.name)

\* C28: every Stop or Delete call is for the kind and name of an object of
\* the transformed graph, and no step of a run takes out of the cluster an
\* object whose kind and name are not those of a graph object, whatever the
\* List calls returned.
C28_OnlyGraphObjectsRemoved ==
    /\ [](\A i \in 1..Len(calls) :
             IsRemoval(calls[i]) => InGraph(calls[i].kind, calls[i].name))
    /\ [][RemovesGraphObjectsOnly]_vars

C28_Witness ==
    /\ pc = "undeployed"
    /\ \E l \in cluster :
          /\ ~InGraph(l.kind, l.name)
          /\ \E k \in 1..Len(objects) :
                /\ objects[k].kind = l.kind
                /\ l.labels = objects[k].labels
                /\ \E i \in 1..Len(calls) :
                      /\ IsRemoval(calls[i]) /\ calls[i].ok
                      /\ calls[i].kind = l.kind /\ calls[i].name = objects[k].name
                /\ \E i \in 1..Len(calls) :
                      IsList(calls[i]) /\ l \in calls[i].found

(***************************************************************************)
(* Properties of the graph: names within a kind.                           *)
(***************************************************************************)
SameKindAndName(a, b) == a.kind = b.kind /\ a.name = b.name

\* C29: no two objects of a returned graph have the same kind and the same
\* name.
C29_UniqueKindAndName ==
    Returned =>
        \A i, j \in 1..Len(objects) : (i # j) => ~SameKindAndName(objects[i], objects[j])

\* what does hold: two objects of the same kind and name are storage claims,
\* built for two mounts that resolve to the same volume name
C29_UniqueButClaims ==
    Returned =>
        \A i, j \in 1..Len(objects) :
            (i # j /\ SameKindAndName(objects[i], objects[j])) =>
                /\ objects[i].kind = "PersistentVolumeClaim"
                /\ objects[i].name \in VolumeNames(objects[i].owner)
                /\ objects[i].name \in VolumeNames(objects[j].owner)

\* in a run of Deploy, no Create call fails on an object an earlier Create
\* call of the run has made
C29_NoCollisionInRun ==
    \A i, j \in 1..Len(calls) :
        (i < j /\ IsCreate(calls[i]) /\ calls[i].ok /\ IsCreate(calls[j])) =>
            ~SameKindAndName(calls[i], calls[j])

(***************************************************************************)
(* Properties of the image stream of the extended platform.                *)
(***************************************************************************)
\* the image streams of the graph
ImageStreams == {i \in 1..Len(objects) : objects[i].kind = "ImageStream"}

\* a build object is emitted for service n
HasBuildObject(n) == OfKinds(n, {"BuildConfig"}) # <<>>

\* the image a service runs: its image name, or its own name when it has none
ImageOf(n) == IF komposeObject[n].Image = <<>> THEN n ELSE komposeObject[n].Image

\* the tags the deployment config's trigger and the build object's output of
\* service n name, as name:tag references
TagReferences(n) ==
    {OfKinds(n, {"DeploymentConfig"})[k].from : k \in 1..Len(OfKinds(n, {"DeploymentConfig"}))}
    \cup {OfKinds(n, {"BuildConfig"})[k].output : k \in 1..Len(OfKinds(n, {"BuildConfig"}))}

\* the import tags of image stream s agree with the references of its service
TagsAgree(s) ==
    \A t \in s.tags :
        /\ t.from = ImageOf(s.owner)
        /\ \A r \in TagReferences(s.owner) : r = s.owner \o <<":">> \o t.tag

\* C30: an image stream of a returned graph has exactly one import tag, from
\* the service's docker image and keyed by the tag the deployment config's
\* trigger and the build object's output name, when no build object is
\* emitted for its service, and no import tag when one is.
C30_ImportTagUnlessBuilt ==
    Returned =>
        \A i \in ImageStreams :
            /\ Cardinality(objects[i].tags) = IF HasBuildObject(objects[i].owner) THEN 0 ELSE 1
            /\ TagsAgree(objects[i])

\* what does hold: the image stream has its import tag unless the run
\* delegates builds and the service has no build context, so in that mode it
\* has one exactly when a build object is emitted; and a tag that is there
\* agrees with the trigger and the output target
C30_ImportTagAsBuilt ==
    Returned =>
        \A i \in ImageStreams :
            /\ Cardinality(objects[i].tags) =
                  IF opt.Build = "build-config" /\ komposeObject[objects[i].owner].Build = <<>>
                  THEN 0 ELSE 1
            /\ opt.Build = "build-config" =>
                  (objects[i].tags # {} <=> HasBuildObject(objects[i].owner))
            /\ TagsAgree(objects[i])

\* outside the delegated build mode the claim holds
C30_ImportTagWithoutDelegation ==
    opt.Build # "build-config" => C30_ImportTagUnlessBuilt

====
